---- MODULE Spec2Model ----
(***************************************************************************)
(* Resume / job matching pipeline: the job-section splitter                *)
(* (ingestion/job_cleaner.py), the keyword extractor and matcher           *)
(* (matching/keyword_matcher.py), the chunk ranker (matching/similarity.py),*)
(* the analysis run of the UI (app/copy.py, app/streamlit_app.py) and the  *)
(* explanation generator with its cost limit (rag/explainer.py).           *)
(***************************************************************************)
EXTENDS Integers, Sequences, FiniteSets, TLC

VARIABLES
    pc,                  \* position of the modelled call
    job_text,            \* argument of extract_requirements_section
    lines,               \* job_text.split('\n')
    i,                   \* 1-based index of the line the loop reads next
    relevant_lines,      \* list built by the line-by-line pass
    required_section,    \* list built by the line-by-line pass
    preferred_section,   \* list built by the line-by-line pass
    current_section,     \* "none" (None) | "required" | "preferred" | "general"
    skip_section,
    in_relevant_section,
    result,              \* the dict returned by extract_requirements_section
    resume_keywords,     \* argument of calculate_keyword_match
    job_keywords,        \* argument of calculate_keyword_match
    job_sections,        \* argument of calculate_keyword_match (present = not None)
    all_job_skills,      \* list(job_skills) of the positional heuristic
    required_skills,     \* set chosen by lines 199-223
    preferred_skills,    \* set chosen by lines 199-223
    match,               \* the dict returned by calculate_keyword_match
    first_match,         \* what an earlier call with the same arguments returned
    kw_text,             \* argument text of extract_keywords
    found,               \* the dict returned by extract_keywords
    resume_chunks,       \* argument of get_top_matching_chunks
    resume_embeddings,   \* argument of get_top_matching_chunks
    job_embedding,       \* argument of get_top_matching_chunks
    top_k,               \* argument of get_top_matching_chunks
    scores,              \* the list built by the loop of get_top_matching_chunks
    top_chunks,          \* the list returned by get_top_matching_chunks
    semantic_score,      \* the semantic score of the analysis
    uploaded_file,       \* a resume file is in the uploader
    job_description,     \* text of the job description box
    resume_result,       \* outcome of process_uploaded_resume: "none" | "ok" | "failed"
    job_result,          \* outcome of process_job_description: "none" | "ok" | "failed"
    steps_run,           \* the steps of the analysis run executed so far, in order
    hybrid_score,        \* score_breakdown["hybrid_score"]
    match_category,      \* the verdict shown, "" before it is chosen
    total_cost,          \* the module global _total_cost
    api_key_set,         \* ANTHROPIC_API_KEY is set in the environment
    usage,               \* response.usage of the requests of this behaviour
    call_pc,             \* per session: position in generate_match_explanation
    call_cost,           \* per session: the local call_cost
    cost_read,           \* per session: _total_cost as loaded by the += statement
    cost_at_call,        \* per session: _total_cost when the call in progress began
    explanation,         \* per session: the dict returned by generate_match_explanation
    shown                \* per session: what the explanation tab displays

cleaner_vars == <<job_text, lines, i, relevant_lines, required_section,
                  preferred_section, current_section, skip_section,
                  in_relevant_section, result>>

matcher_vars == <<resume_keywords, job_keywords, job_sections, all_job_skills,
                  required_skills, preferred_skills, match>>

caller_vars == <<first_match>>

extractor_vars == <<kw_text, found>>

ranker_vars == <<resume_chunks, resume_embeddings, job_embedding, top_k, scores,
                 top_chunks, semantic_score>>

analysis_vars == <<uploaded_file, job_description, resume_result, job_result,
                   steps_run, hybrid_score, match_category>>

explainer_vars == <<total_cost, api_key_set, usage, call_pc, call_cost, cost_read,
                    cost_at_call, explanation, shown>>

vars == <<pc, cleaner_vars, matcher_vars, caller_vars, extractor_vars, ranker_vars,
          analysis_vars, explainer_vars>>

\* what the steps of each function leave alone
not_cleaner_vars == <<matcher_vars, caller_vars, extractor_vars, ranker_vars,
                      analysis_vars, explainer_vars>>

not_matcher_vars == <<cleaner_vars, caller_vars, extractor_vars, ranker_vars,
                      analysis_vars, explainer_vars>>

not_extractor_vars == <<cleaner_vars, matcher_vars, caller_vars, ranker_vars,
                        analysis_vars, explainer_vars>>

not_ranker_vars == <<cleaner_vars, matcher_vars, caller_vars, extractor_vars,
                     analysis_vars, explainer_vars>>

not_analysis_vars == <<cleaner_vars, matcher_vars, caller_vars, extractor_vars,
                       ranker_vars, explainer_vars>>

not_explainer_vars == <<cleaner_vars, matcher_vars, caller_vars, extractor_vars,
                        ranker_vars, analysis_vars>>

-----------------------------------------------------------------------------
(* Bounds of the explored inputs *)

\* longest job text built from free choices of vocabulary lines
MaxLines == 3
\* most list items appended after an optional first line
MaxPad == 12
\* most technical skills of a resume
MaxResumeSkills == 4
\* most technical skills of a job on the positional path
MaxJobSkills == 4

-----------------------------------------------------------------------------
(* Python string primitives *)

Whitespace == {" ", "\t", "\n", "\r", "\f"}

UpperChars == "ABCDEFGHIJKLMNOPQRSTUVWXYZ"
LowerChars == "abcdefghijklmnopqrstuvwxyz"

Char(s, k) == SubSeq(s, k, k)

LowerChar(c) ==
    IF \E k \in 1..Len(UpperChars) : Char(UpperChars, k) = c
    THEN Char(LowerChars, CHOOSE k \in 1..Len(UpperChars) : Char(UpperChars, k) = c)
    ELSE c

RECURSIVE LowerRange(_, _, _)
LowerRange(s, a, b) ==
    IF a > b THEN ""
    ELSE IF a = b THEN LowerChar(Char(s, a))
    ELSE LowerRange(s, a, (a + b) \div 2) \o LowerRange(s, ((a + b) \div 2) + 1, b)

\* str.lower()
Lower(s) == LowerRange(s, 1, Len(s))

\* str.strip()
Strip(s) ==
    LET keep == {k \in 1..Len(s) : Char(s, k) \notin Whitespace}
    IN  IF keep = {} THEN ""
        ELSE SubSeq(s, CHOOSE a \in keep : \A b \in keep : a <= b,
                       CHOOSE a \in keep : \A b \in keep : a >= b)

\* sub in s
Contains(s, sub) ==
    \E k \in 1..(Len(s) - Len(sub) + 1) : SubSeq(s, k, k + Len(sub) - 1) = sub

\* s.startswith(sub, k - 1), k a 1-based position
StartsAt(s, k, sub) ==
    /\ k + Len(sub) - 1 <= Len(s)
    /\ SubSeq(s, k, k + Len(sub) - 1) = sub

\* s.split('\n'): the pieces between consecutive newlines
SplitLines(s) ==
    LET nl     == {k \in 1..Len(s) : Char(s, k) = "\n"}
        nth(j) == IF j = 0 THEN 0
                  ELSE IF j > Cardinality(nl) THEN Len(s) + 1
                  ELSE CHOOSE k \in nl : Cardinality({x \in nl : x < k}) = j - 1
    IN  [j \in 1..(Cardinality(nl) + 1) |-> SubSeq(s, nth(j - 1) + 1, nth(j) - 1)]

RECURSIVE JoinLines(_)
\* '\n'.join(ls)
JoinLines(ls) ==
    IF Len(ls) = 0 THEN ""
    ELSE IF Len(ls) = 1 THEN ls[1]
    ELSE ls[1] \o "\n" \o JoinLines(Tail(ls))

-----------------------------------------------------------------------------
(* Python float arithmetic (IEEE 754 binary64, round to nearest even) on    *)
(* non-negative values.  A natural number is a little-endian sequence of    *)
(* limbs below LimbBase without high zero limbs; a float is zero or         *)
(* m * 2^e with a mantissa m of exactly MantissaBits bits.                  *)

LimbBits == 14
LimbBase == 2^14
MantissaBits == 53

RECURSIVE BTrim(_)
BTrim(a) ==
    IF Len(a) = 0 THEN a
    ELSE IF a[Len(a)] = 0 THEN BTrim(SubSeq(a, 1, Len(a) - 1))
    ELSE a

RECURSIVE BFromInt(_)
BFromInt(n) == IF n = 0 THEN <<>> ELSE <<n % LimbBase>> \o BFromInt(n \div LimbBase)

RECURSIVE BToInt(_)
BToInt(a) == IF Len(a) = 0 THEN 0 ELSE a[1] + LimbBase * BToInt(Tail(a))

RECURSIVE BAddC(_, _, _)
BAddC(a, b, c) ==
    IF Len(a) = 0 /\ Len(b) = 0 THEN (IF c = 0 THEN <<>> ELSE <<c>>)
    ELSE LET x == IF Len(a) = 0 THEN 0 ELSE a[1]
             y == IF Len(b) = 0 THEN 0 ELSE b[1]
             t == x + y + c
         IN  <<t % LimbBase>> \o
             BAddC(IF Len(a) = 0 THEN a ELSE Tail(a),
                   IF Len(b) = 0 THEN b ELSE Tail(b), t \div LimbBase)

BAdd(a, b) == BAddC(a, b, 0)

RECURSIVE BMulSmallC(_, _, _)
\* a * k + c for 0 <= k <= LimbBase
BMulSmallC(a, k, c) ==
    IF Len(a) = 0 THEN BFromInt(c)
    ELSE LET t == a[1] * k + c
         IN  <<t % LimbBase>> \o BMulSmallC(Tail(a), k, t \div LimbBase)

BMulSmall(a, k) == BTrim(BMulSmallC(a, k, 0))

RECURSIVE BMulRaw(_, _)
BMulRaw(a, b) ==
    IF Len(b) = 0 THEN <<>>
    ELSE BAdd(BMulSmallC(a, b[1], 0), <<0>> \o BMulRaw(a, Tail(b)))

BMul(a, b) == BTrim(BMulRaw(a, b))

RECURSIVE BDivSmallFrom(_, _, _, _)
\* long division by 0 < d <= LimbBase from limb k down, with remainder r so far
BDivSmallFrom(a, d, k, r) ==
    IF k = 0 THEN [quot |-> <<>>, rem |-> r]
    ELSE LET t    == r * LimbBase + a[k]
             rest == BDivSmallFrom(a, d, k - 1, t % d)
         IN  [quot |-> rest.quot \o <<t \div d>>, rem |-> rest.rem]

BDivSmall(a, d) ==
    LET x == BDivSmallFrom(a, d, Len(a), 0)
    IN  [quot |-> BTrim(x.quot), rem |-> x.rem]

Zeros(n) == [j \in 1..n |-> 0]

\* a * 2^k
BShl(a, k) ==
    IF Len(a) = 0 THEN a
    ELSE Zeros(k \div LimbBits) \o BMulSmall(a, 2^(k % LimbBits))

\* a \div 2^k
BShr(a, k) ==
    IF k \div LimbBits >= Len(a) THEN <<>>
    ELSE BDivSmall(SubSeq(a, (k \div LimbBits) + 1, Len(a)), 2^(k % LimbBits)).quot

RECURSIVE IntBitLen(_)
IntBitLen(n) == IF n = 0 THEN 0 ELSE 1 + IntBitLen(n \div 2)

BBitLen(a) == IF Len(a) = 0 THEN 0 ELSE (Len(a) - 1) * LimbBits + IntBitLen(a[Len(a)])

BIsOdd(a) == Len(a) > 0 /\ a[1] % 2 = 1

RECURSIVE BLess(_, _)
BLess(a, b) ==
    IF Len(a) # Len(b) THEN Len(a) < Len(b)
    ELSE IF Len(a) = 0 THEN FALSE
    ELSE IF a[Len(a)] # b[Len(b)] THEN a[Len(a)] < b[Len(b)]
    ELSE BLess(SubSeq(a, 1, Len(a) - 1), SubSeq(b, 1, Len(b) - 1))

FZero == [m |-> <<>>, e |-> 0]

\* the float nearest to n * 2^e, ties to the even mantissa
FRound(n, e) ==
    LET len == BBitLen(n)
        s   == len - MantissaBits
    IN  IF len = 0 THEN FZero
        ELSE IF s <= 0 THEN [m |-> BShl(n, 0 - s), e |-> e + s]
        ELSE LET q2     == BShr(n, s - 1)           \* kept bits and the next bit
                 q      == BShr(q2, 1)
                 sticky == n # BShl(q2, s - 1)
                 up     == BIsOdd(q2) /\ (sticky \/ BIsOdd(q))
                 r      == IF up THEN BAdd(q, <<1>>) ELSE q
             IN  IF BBitLen(r) > MantissaBits
                 THEN [m |-> BShr(r, 1), e |-> e + s + 1]
                 ELSE [m |-> r, e |-> e + s]

\* float(n) for an int n >= 0
FFromInt(n) == FRound(BFromInt(n), 0)

\* a / b for ints a >= 0, b > 0 (true division), also the value of a decimal
\* literal a/b: the quotient to 2 * MantissaBits bits plus a sticky bit
FDivInt(a, b) ==
    LET k == 2 * MantissaBits
        d == BDivSmall(BShl(BFromInt(a), k), b)
    IN  FRound(BAdd(BShl(d.quot, 1), IF d.rem = 0 THEN <<>> ELSE <<1>>), 0 - (k + 1))

FMul(x, y) == FRound(BMul(x.m, y.m), x.e + y.e)

FAdd(x, y) ==
    IF Len(x.m) = 0 THEN y
    ELSE IF Len(y.m) = 0 THEN x
    ELSE LET e0 == IF x.e < y.e THEN x.e ELSE y.e
         IN  FRound(BAdd(BShl(x.m, x.e - e0), BShl(y.m, y.e - e0)), e0)

FLess(x, y) ==
    IF Len(y.m) = 0 THEN FALSE
    ELSE IF Len(x.m) = 0 THEN TRUE
    ELSE IF x.e # y.e THEN x.e < y.e
    ELSE BLess(x.m, y.m)

FLeq(x, y) == x = y \/ FLess(x, y)

\* int(x): truncation
FTrunc(x) ==
    IF Len(x.m) = 0 THEN 0
    ELSE IF x.e >= 0 THEN BToInt(BShl(x.m, x.e))
    ELSE BToInt(BShr(x.m, 0 - x.e))

RECURSIVE BSubB(_, _, _)
\* a - b - c for a >= b + c, c the borrow
BSubB(a, b, c) ==
    IF Len(a) = 0 THEN <<>>
    ELSE LET y == IF Len(b) = 0 THEN 0 ELSE b[1]
             t == a[1] - y - c
         IN  <<t % LimbBase>> \o
             BSubB(Tail(a), IF Len(b) = 0 THEN b ELSE Tail(b), IF t < 0 THEN 1 ELSE 0)

BSub(a, b) == BTrim(BSubB(a, b, 0))

\* x - y for floats x >= y >= 0
FSub(x, y) ==
    IF Len(y.m) = 0 THEN x
    ELSE LET e0 == IF x.e < y.e THEN x.e ELSE y.e
         IN  FRound(BSub(BShl(x.m, x.e - e0), BShl(y.m, y.e - e0)), e0)

\* x / d for a float x >= 0 and an int 0 < d <= LimbBase
FDivSmall(x, d) ==
    LET k == MantissaBits + LimbBits
        q == BDivSmall(BShl(x.m, k), d)
    IN  FRound(BAdd(BShl(q.quot, 1), IF q.rem = 0 THEN <<>> ELSE <<1>>), x.e - (k + 1))

(* Signed floats: a sign and a magnitude; zero carries no sign *)

Signed(neg, abs) == [neg |-> neg /\ Len(abs.m) > 0, abs |-> abs]

SZero == Signed(FALSE, FZero)

\* float(n) for any int n
SFromInt(n) == Signed(n < 0, FFromInt(IF n < 0 THEN 0 - n ELSE n))

\* float(a) / float(b) for ints a and b > 0
SDivInt(a, b) == Signed(a < 0, FDivInt(IF a < 0 THEN 0 - a ELSE a, b))

SMul(x, y) == Signed(x.neg # y.neg, FMul(x.abs, y.abs))

SAdd(x, y) ==
    IF x.neg = y.neg THEN Signed(x.neg, FAdd(x.abs, y.abs))
    ELSE IF FLess(x.abs, y.abs) THEN Signed(y.neg, FSub(y.abs, x.abs))
    ELSE Signed(x.neg, FSub(x.abs, y.abs))

\* x / d for an int 0 < d <= LimbBase
SDivSmall(x, d) == Signed(x.neg, FDivSmall(x.abs, d))

SLess(x, y) ==
    IF x.neg /\ y.neg THEN FLess(y.abs, x.abs)
    ELSE IF x.neg # y.neg THEN x.neg
    ELSE FLess(x.abs, y.abs)

SLeq(x, y) == x = y \/ SLess(x, y)

-----------------------------------------------------------------------------
(* ingestion/job_cleaner.py: marker vocabularies *)

RELEVANT_SECTION_KEYWORDS == {
    "responsibilities", "requirements", "qualifications", "required", "require",
    "preferred", "skills", "experience", "education", "what you'll do",
    "what you will do", "what you need", "you will", "must have",
    "should have", "nice to have", "technical skills", "key responsibilities",
    "core responsibilities", "essential", "desired", "minimum qualifications",
    "basic qualifications", "preferred qualifications", "technical requirements",
    "role requirements", "job requirements", "candidate profile" }

IRRELEVANT_SECTION_KEYWORDS == {
    "about us", "about the company", "company overview", "who we are", "our mission",
    "our values", "our culture", "why work here", "why join",
    "benefits", "compensation", "salary", "perks", "what we offer", "package",
    "equal opportunity", "eeo", "diversity", "application process", "apply now",
    "how to apply", "contact", "location details", "office location",
    "company description", "about the role", "team", "our team" }

REQUIRED_INDICATORS == {
    "required", "must have", "must-have", "essential", "mandatory", "minimum",
    "basic qualifications", "minimum qualifications", "requirements:",
    "required qualifications", "required skills", "you must", "you will need" }

PREFERRED_INDICATORS == {
    "preferred", "nice to have", "nice-to-have", "bonus", "plus", "desired",
    "ideal", "preferred qualifications", "preferred skills", "would be a plus",
    "it would be great if", "we'd love if", "additional", "optional" }

\* any(keyword in line_lower for keyword in keywords)
AnyIn(keywords, line_lower) == \E keyword \in keywords : Contains(line_lower, keyword)

\* line_lower = line.lower().strip()
LineLower(line) == Strip(Lower(line))

IsBlank(line) == Strip(line) = ""

IsIrrelevantLine(line) == AnyIn(IRRELEVANT_SECTION_KEYWORDS, LineLower(line))

IsRelevantLine(line) == AnyIn(RELEVANT_SECTION_KEYWORDS, LineLower(line))

\* the classification a relevant header line sets
HeaderSection(line) ==
    IF AnyIn(REQUIRED_INDICATORS, LineLower(line)) THEN "required"
    ELSE IF AnyIn(PREFERRED_INDICATORS, LineLower(line)) THEN "preferred"
    ELSE "general"

-----------------------------------------------------------------------------
(* ingestion/job_cleaner.py: extract_middle_section *)

\* a cleaned text shorter than this counts as a failed extraction
MinCleanedLen == 100
\* fewer non-blank lines than this and the fallback returns the text as it is
MinMiddleLines == 10

\* [l for l in text.split('\n') if l.strip()]
NonBlankLines(text) == SelectSeq(SplitLines(text), LAMBDA l : ~IsBlank(l))

\* variant: the slice ends one line early
extract_middle_section_ShortSlice(text) ==
    LET ls        == NonBlankLines(text)
        start_idx == Len(ls) \div 5
        end_idx   == Len(ls) - (Len(ls) \div 5) - 1
    IN  IF Len(ls) < MinMiddleLines THEN text
        ELSE JoinLines(SubSeq(ls, start_idx + 1, end_idx))

extract_middle_section(text) ==
    LET ls        == NonBlankLines(text)
        start_idx == Len(ls) \div 5
        end_idx   == Len(ls) - (Len(ls) \div 5)
    IN  IF Len(ls) < MinMiddleLines THEN text
        ELSE JoinLines(SubSeq(ls, start_idx + 1, end_idx))

-----------------------------------------------------------------------------
(* ingestion/job_cleaner.py: regex_separate_requirements                   *)
(* A pattern is  (?:alts) gap ([\s\S]*?) (?=lookahead)  searched with       *)
(* re.IGNORECASE | re.MULTILINE.  alts lists the header alternatives in     *)
(* the order the regex engine tries them (an optional trailing "s" first    *)
(* with it, then without).  gap "class" is [\s:]*\n (greedy), gap "any" is   *)
(* [\s\S]*?\n (lazy).  Lookahead "line" is \n(?:stops|$), lookahead "para"   *)
(* is \n\n|\Z.                                                              *)

required_patterns == <<
    [alts |-> <<"required", "must have", "minimum", "essential",
                "basic qualifications", "basic qualification">>,
     gap |-> "class", look |-> "line",
     stops |-> {"preferred", "nice to have", "bonus", "desired"}],
    [alts |-> <<"requirements", "requirement">>,
     gap |-> "class", look |-> "line",
     stops |-> {"preferred", "nice to have", "bonus"}],
    [alts |-> <<"minimum qualifications", "minimum qualification">>,
     gap |-> "class", look |-> "line",
     stops |-> {"preferred", "desired"}] >>

preferred_patterns == <<
    [alts |-> <<"preferred", "nice to have", "bonus", "desired", "ideal">>,
     gap |-> "class", look |-> "para", stops |-> {}],
    [alts |-> <<"preferred qualifications", "preferred qualification">>,
     gap |-> "class", look |-> "para", stops |-> {}],
    [alts |-> <<"it would be great if", "it would be nice if", "it would be a plus if">>,
     gap |-> "any", look |-> "para", stops |-> {}] >>

SetMin(S) == CHOOSE a \in S : \A b \in S : a <= b
SetMax(S) == CHOOSE a \in S : \A b \in S : a >= b

\* the lookahead holds with the captured group ending just before position e
Lookahead(t, tl, e, pat) ==
    IF pat.look = "line"
    THEN /\ e <= Len(t)
         /\ Char(t, e) = "\n"
         /\ \/ \E w \in pat.stops : StartsAt(tl, e + 1, w)
            \/ e + 1 > Len(t)            \* $ at the end of the text
            \/ Char(t, e + 1) = "\n"     \* $ before a newline (re.MULTILINE)
    ELSE \/ StartsAt(t, e, "\n\n")
         \/ e = Len(t) + 1               \* \Z

\* ends of the lazy group that starts after the newline at q, shortest first
GroupEnds(t, tl, q, pat) ==
    {e \in (q + 1)..(Len(t) + 1) : Lookahead(t, tl, e, pat)}

\* positions of the newline the gap may end with, header ending before p
GapNewlines(t, p, pat) ==
    IF pat.gap = "class"
    THEN LET other == {k \in p..Len(t) : Char(t, k) \notin (Whitespace \cup {":"})}
             stop  == IF other = {} THEN Len(t) + 1 ELSE SetMin(other)
         IN  {q \in p..(stop - 1) : Char(t, q) = "\n"}
    ELSE {q \in p..Len(t) : Char(t, q) = "\n"}

\* the newline the engine settles on (0: none): greedy gap takes the last
\* one that lets the rest match, lazy gap the first
GapChoice(t, tl, p, pat) ==
    LET ok == {q \in GapNewlines(t, p, pat) : GroupEnds(t, tl, q, pat) # {}}
    IN  IF ok = {} THEN 0
        ELSE IF pat.gap = "class" THEN SetMax(ok) ELSE SetMin(ok)

\* alternatives that match at s and let the whole pattern match
AltsAt(t, tl, s, pat) ==
    {a \in 1..Len(pat.alts) :
        /\ StartsAt(tl, s, pat.alts[a])
        /\ GapChoice(t, tl, s + Len(pat.alts[a]), pat) # 0}

\* re.search(pattern, t, re.IGNORECASE | re.MULTILINE): found, group(1)
ReSearch(t, pat) ==
    LET tl     == Lower(t)
        starts == {s \in 1..Len(t) : AltsAt(t, tl, s, pat) # {}}
    IN  IF starts = {} THEN [found |-> FALSE, group |-> ""]
        ELSE LET s == SetMin(starts)
                 a == SetMin(AltsAt(t, tl, s, pat))
                 q == GapChoice(t, tl, s + Len(pat.alts[a]), pat)
                 e == SetMin(GroupEnds(t, tl, q, pat))
             IN  [found |-> TRUE, group |-> SubSeq(t, q + 1, e - 1)]

RECURSIVE FirstMatch(_, _, _)
\* the for loop over the patterns: first match wins, "" when none matches
FirstMatch(t, patterns, k) ==
    IF k > Len(patterns) THEN ""
    ELSE IF ReSearch(t, patterns[k]).found
         THEN Strip(ReSearch(t, patterns[k]).group)
         ELSE FirstMatch(t, patterns, k + 1)

regex_separate_requirements(text) ==
    [required  |-> FirstMatch(text, required_patterns, 1),
     preferred |-> FirstMatch(text, preferred_patterns, 1)]

-----------------------------------------------------------------------------
(* Inputs of extract_requirements_section *)

\* a plain 93-character line: under the header "Skills" the cleaned text is
\* exactly MinCleanedLen characters long
LongLine ==
    "Build and run data pipelines in Python and SQL on AWS with Docker, Kafka, Spark, and Airflow."

Vocabulary ==
    { "", "Requirements:", "Preferred:", "Skills", "Benefits", "Team skills",
      "Bonus:", LongLine }

PadWords == << "Python", "SQL", "Docker", "AWS", "Kafka", "Spark", "Airflow",
               "Git", "Linux", "Scala", "Java", "Rust", "Bash", "Redis" >>

\* k short list items, all different
Pad(k) == [j \in 1..k |-> PadWords[((j - 1) % Len(PadWords)) + 1]]

ExampleText == "Requirements:\nPython required\n\nPreferred:\nDocker nice to have"

ExampleTexts ==
    { ExampleText,
      "Minimum:\nSQL\n\nBonus:\nDocker",
      "About us\nWe build tools\nRequirements:\nPython\nBenefits\nFree lunch",
      "  \n\tSkills desired \nGo\n",
      "Must have:\n\nPython\n\nNice to have\nKafka\n\nPerks" }

FreeTexts ==
    {JoinLines(b) : b \in UNION {[1..n -> Vocabulary] : n \in 0..MaxLines}}

PaddedTexts ==
    {JoinLines(h \o Pad(k)) :
        h \in {<<>>} \cup {<<v>> : v \in Vocabulary}, k \in 1..MaxPad}

JobTexts == FreeTexts \cup PaddedTexts \cup ExampleTexts

\* every line of every input text
InputLines == UNION {{SplitLines(t)[j] : j \in DOMAIN SplitLines(t)} : t \in JobTexts}

\* the tests of lines 71, 75, 81 and 86-92 on each input line, computed once
LineClass ==
    [l \in InputLines |->
        [blank      |-> IsBlank(l),
         irrelevant |-> IsIrrelevantLine(l),
         relevant   |-> IsRelevantLine(l),
         section    |-> HeaderSection(l)]]

NoResult == [cleaned_text |-> "", required_skills |-> "", preferred_skills |-> "",
             full_text |-> ""]

NoKeywords == [technical_skills |-> {}, education |-> {}, experience_level |-> {}]

NoSections == [present |-> FALSE, required_skills |-> "", preferred_skills |-> ""]

NoMatch == [returned |-> FALSE]

\* calculate_keyword_match is not running
MatcherIdle ==
    /\ resume_keywords = NoKeywords
    /\ job_keywords = NoKeywords
    /\ job_sections = NoSections
    /\ all_job_skills = <<>>
    /\ required_skills = {}
    /\ preferred_skills = {}
    /\ match = NoMatch
    /\ first_match = NoMatch

\* extract_keywords is not running
ExtractorIdle ==
    /\ kw_text = ""
    /\ found = NoKeywords

\* get_top_matching_chunks is not running
RankerIdle ==
    /\ resume_chunks = <<>>
    /\ resume_embeddings = <<>>
    /\ job_embedding = <<>>
    /\ top_k = 0
    /\ scores = <<>>
    /\ top_chunks = <<>>
    /\ semantic_score = SZero

\* no analysis run of the UI is under way
AnalysisIdle ==
    /\ uploaded_file = FALSE
    /\ job_description = ""
    /\ resume_result = "none"
    /\ job_result = "none"
    /\ steps_run = <<>>
    /\ hybrid_score = FZero
    /\ match_category = ""

\* the UI sessions of one server process, which share the module globals
Sessions == {"a", "b"}

NoExplanation == [kind |-> "none", strengths |-> <<>>, gaps |-> <<>>, cost |-> FZero]

\* no call of generate_match_explanation is under way
ExplainerIdle ==
    /\ total_cost = FZero
    /\ api_key_set = FALSE
    /\ usage = [input_tokens |-> 0, output_tokens |-> 0]
    /\ call_pc = [s \in Sessions |-> "idle"]
    /\ call_cost = [s \in Sessions |-> FZero]
    /\ cost_read = [s \in Sessions |-> FZero]
    /\ cost_at_call = [s \in Sessions |-> FZero]
    /\ explanation = [s \in Sessions |-> NoExplanation]
    /\ shown = [s \in Sessions |-> "nothing"]

-----------------------------------------------------------------------------
(* ingestion/job_cleaner.py: extract_requirements_section *)

CleanerInit ==
    /\ pc = "call"
    /\ ExtractorIdle
    /\ RankerIdle
    /\ AnalysisIdle
    /\ ExplainerIdle
    /\ job_text \in JobTexts
    /\ lines = <<>>
    /\ i = 0
    /\ relevant_lines = <<>>
    /\ required_section = <<>>
    /\ preferred_section = <<>>
    /\ current_section = "none"
    /\ skip_section = FALSE
    /\ in_relevant_section = FALSE
    /\ result = NoResult
    /\ MatcherIdle

\* lines 57-65: split the text, initialise the pass
EnterExtract ==
    /\ pc = "call"
    /\ UNCHANGED not_cleaner_vars
    /\ pc' = "loop"
    /\ lines' = SplitLines(job_text)
    /\ i' = 1
    /\ relevant_lines' = <<>>
    /\ required_section' = <<>>
    /\ preferred_section' = <<>>
    /\ current_section' = "none"
    /\ skip_section' = FALSE
    /\ in_relevant_section' = FALSE
    /\ UNCHANGED <<job_text, result>>

\* lines 70-72: a blank line changes nothing
SkipBlankLine ==
    /\ pc = "loop"
    /\ UNCHANGED not_cleaner_vars
    /\ i <= Len(lines)
    /\ LineClass[lines[i]].blank
    /\ i' = i + 1
    /\ UNCHANGED <<pc, job_text, lines, relevant_lines, required_section,
                   preferred_section, current_section, skip_section,
                   in_relevant_section, result>>

\* variant: the marker line is dropped but skipping is not turned on
SkipIrrelevantLine_NoSkip ==
    /\ pc = "loop"
    /\ UNCHANGED not_cleaner_vars
    /\ i <= Len(lines)
    /\ ~LineClass[lines[i]].blank
    /\ LineClass[lines[i]].irrelevant
    /\ in_relevant_section' = FALSE
    /\ i' = i + 1
    /\ UNCHANGED <<pc, job_text, lines, relevant_lines, required_section,
                   preferred_section, current_section, skip_section, result>>

\* variant: the marker line also forgets the classification
SkipIrrelevantLine_ClearsSection ==
    /\ pc = "loop"
    /\ UNCHANGED not_cleaner_vars
    /\ i <= Len(lines)
    /\ ~LineClass[lines[i]].blank
    /\ LineClass[lines[i]].irrelevant
    /\ skip_section' = TRUE
    /\ in_relevant_section' = FALSE
    /\ current_section' = "none"
    /\ i' = i + 1
    /\ UNCHANGED <<pc, job_text, lines, relevant_lines, required_section,
                   preferred_section, result>>

\* lines 74-78: an irrelevant marker turns skipping on and drops the line
SkipIrrelevantLine ==
    /\ pc = "loop"
    /\ UNCHANGED not_cleaner_vars
    /\ i <= Len(lines)
    /\ ~LineClass[lines[i]].blank
    /\ LineClass[lines[i]].irrelevant
    /\ skip_section' = TRUE
    /\ in_relevant_section' = FALSE
    /\ i' = i + 1
    /\ UNCHANGED <<pc, job_text, lines, relevant_lines, required_section,
                   preferred_section, current_section, result>>

\* variant: a 'general' line goes to both lists, as the comment on line 104 says
AppendLine_GeneralToBoth(line, skip, in_relevant, section) ==
    IF ~skip /\ (in_relevant \/ section # "none")
    THEN /\ relevant_lines' = Append(relevant_lines, line)
         /\ required_section' =
                IF section \in {"required", "general"}
                THEN Append(required_section, line) ELSE required_section
         /\ preferred_section' =
                IF section \in {"preferred", "general"}
                THEN Append(preferred_section, line) ELSE preferred_section
    ELSE UNCHANGED <<relevant_lines, required_section, preferred_section>>

\* variant: the normalised line_lower is stored instead of the line
AppendLine_Lowered(line, skip, in_relevant, section) ==
    IF ~skip /\ (in_relevant \/ section # "none")
    THEN /\ relevant_lines' = Append(relevant_lines, LineLower(line))
         /\ required_section' =
                IF section \in {"required", "general"}
                THEN Append(required_section, LineLower(line)) ELSE required_section
         /\ preferred_section' =
                IF section = "preferred"
                THEN Append(preferred_section, LineLower(line)) ELSE preferred_section
    ELSE UNCHANGED <<relevant_lines, required_section, preferred_section>>

\* variant: the branch for 'general' is missing
AppendLine_GeneralDropped(line, skip, in_relevant, section) ==
    IF ~skip /\ (in_relevant \/ section # "none")
    THEN /\ relevant_lines' = Append(relevant_lines, line)
         /\ required_section' =
                IF section = "required"
                THEN Append(required_section, line) ELSE required_section
         /\ preferred_section' =
                IF section = "preferred"
                THEN Append(preferred_section, line) ELSE preferred_section
    ELSE UNCHANGED <<relevant_lines, required_section, preferred_section>>

\* lines 94-105: append the line to the lists, given the flags after the
\* header test
AppendLine(line, skip, in_relevant, section) ==
    IF ~skip /\ (in_relevant \/ section # "none")
    THEN /\ relevant_lines' = Append(relevant_lines, line)
         /\ required_section' =
                IF section \in {"required", "general"}
                THEN Append(required_section, line) ELSE required_section
         /\ preferred_section' =
                IF section = "preferred"
                THEN Append(preferred_section, line) ELSE preferred_section
    ELSE UNCHANGED <<relevant_lines, required_section, preferred_section>>

\* lines 80-105: a relevant header clears skipping, sets the classification
\* and is itself appended
ReadHeaderLine ==
    /\ pc = "loop"
    /\ UNCHANGED not_cleaner_vars
    /\ i <= Len(lines)
    /\ ~LineClass[lines[i]].blank
    /\ ~LineClass[lines[i]].irrelevant
    /\ LineClass[lines[i]].relevant
    /\ skip_section' = FALSE
    /\ in_relevant_section' = TRUE
    /\ current_section' = LineClass[lines[i]].section
    /\ AppendLine(lines[i], FALSE, TRUE, LineClass[lines[i]].section)
    /\ i' = i + 1
    /\ UNCHANGED <<pc, job_text, lines, result>>

\* lines 94-105: any other line is appended under the flags as they are
ReadPlainLine ==
    /\ pc = "loop"
    /\ UNCHANGED not_cleaner_vars
    /\ i <= Len(lines)
    /\ ~LineClass[lines[i]].blank
    /\ ~LineClass[lines[i]].irrelevant
    /\ ~LineClass[lines[i]].relevant
    /\ AppendLine(lines[i], skip_section, in_relevant_section, current_section)
    /\ i' = i + 1
    /\ UNCHANGED <<pc, job_text, lines, current_section, skip_section,
                   in_relevant_section, result>>

\* lines 107-128: join the lists, apply the two fallbacks, build the dict
BuildResult(text, relevant, required, preferred) ==
    LET cleaned0   == JoinLines(relevant)
        required0  == JoinLines(required)
        preferred0 == JoinLines(preferred)
        short      == Len(cleaned0) < MinCleanedLen
        cleaned1   == IF short THEN extract_middle_section(text) ELSE cleaned0
        required1  == IF short THEN cleaned1 ELSE required0
        backup     == required1 = "" /\ preferred0 = ""
        sections   == regex_separate_requirements(text)
    IN  [cleaned_text     |-> cleaned1,
         required_skills  |-> IF backup THEN sections.required ELSE required1,
         preferred_skills |-> IF backup THEN sections.preferred ELSE preferred0,
         full_text        |-> text]

ReturnResult ==
    /\ pc = "loop"
    /\ UNCHANGED not_cleaner_vars
    /\ i > Len(lines)
    /\ result' = BuildResult(job_text, relevant_lines, required_section,
                             preferred_section)
    /\ pc' = "done"
    /\ UNCHANGED <<job_text, lines, i, relevant_lines, required_section,
                   preferred_section, current_section, skip_section,
                   in_relevant_section>>

CleanerNext ==
    \/ EnterExtract
    \/ SkipBlankLine
    \/ SkipIrrelevantLine
    \/ ReadHeaderLine
    \/ ReadPlainLine
    \/ ReturnResult

SpecCleaner == CleanerInit /\ [][CleanerNext]_vars

-----------------------------------------------------------------------------
(* matching/keyword_matcher.py: the taxonomy *)

TECH_SKILLS == {
    "agile", "ai agent", "ai agents", "airflow", "algorithms", "alteryx",
    "amazon web services", "angular", "annoy", "ansible", "apache airflow", "apache beam",
    "api", "apis", "asana", "async", "asynchronous programming", "attention mechanism",
    "authentication", "authorization", "automation", "automation anywhere", "aws", "azure",
    "bash", "beam", "bedrock", "bert", "bigquery", "blue prism",
    "c#", "c++", "cassandra", "catboost", "chatgpt", "chromadb",
    "ci/cd", "circleci", "claude", "cloud computing", "colab", "compliance",
    "computer vision", "confluence", "continuous deployment", "continuous integration", "copilot", "copilots",
    "cybersecurity", "d3", "d3.js", "dashboards", "data analysis", "data integration",
    "data lake", "data lakes", "data modeling", "data pipeline", "data pipelines", "data science",
    "data structures", "data visualization", "data warehouse", "data warehousing", "database", "databases",
    "databricks", "dataflow", "dataviz", "dbt", "deep learning", "design patterns",
    "devops", "distributed systems", "django", "dns", "docker", "documentation",
    "dynamodb", "ec2", "elasticsearch", "elt", "emacs", "embedding",
    "embeddings", "emr", "encryption", "etl", "excel", "express",
    "faiss", "fastapi", "fine-tuning", "fivetran", "flask", "functional programming",
    "gcp", "gdpr", "gen ai", "genai", "generative ai", "git",
    "github", "github actions", "gitlab", "gitlab ci", "glue", "go",
    "google cloud", "google cloud platform", "google colab", "google sheets", "google workspace", "gpt",
    "gpt-3", "gpt-4", "grafana", "graphql", "hadoop", "hipaa",
    "http", "https", "hugging face", "huggingface", "informatica", "integration testing",
    "intellij", "java", "javascript", "jenkins", "jira", "julia",
    "junit", "jupyter", "jupyter notebook", "jwt", "k8s", "kafka",
    "kanban", "keras", "kinesis", "kotlin", "kubeflow", "kubernetes",
    "lambda", "langchain", "large language model", "large language models", "lightgbm", "linux",
    "llamaindex", "llm", "llms", "load balancing", "logging", "looker",
    "machine learning", "macos", "mariadb", "matlab", "matplotlib", "mcp",
    "mcps", "microservices", "microsoft azure", "microsoft office", "ml", "mlflow",
    "mlops", "model context protocol", "mongodb", "monitoring", "mysql", "natural language processing",
    "neo4j", "networking", "nlp", "node.js", "nodejs", "nosql",
    "notion", "numpy", "oauth", "object oriented programming", "observability", "oop",
    "openai", "oracle", "pandas", "performance optimization", "perl", "php",
    "pinecone", "plotly", "postgres", "postgresql", "postman", "power automate",
    "power bi", "powerbi", "powerpoint", "presentations", "prometheus", "prompt engineering",
    "pycharm", "pyspark", "pytest", "python", "pytorch", "qlik",
    "r", "rag", "rdbms", "react", "reactjs", "redis",
    "redshift", "reporting", "rest api", "restful", "retrieval augmented generation", "robotic process automation",
    "rpa", "ruby", "rust", "s3", "sagemaker", "scala",
    "scalability", "scikit learn", "scikit-learn", "scrum", "seaborn", "security",
    "selenium", "semantic search", "sklearn", "slack", "snowflake", "soc2",
    "spark", "spring boot", "sprint", "sql", "sql server", "sqlite",
    "ssl", "statistical analysis", "statistics", "stitch", "sublime", "swagger",
    "swift", "system administration", "system design", "tableau", "talend", "tcp/ip",
    "tdd", "teams", "technical writing", "tensorflow", "terraform", "test automation",
    "test driven development", "testing", "tls", "transformer", "transformers", "travis ci",
    "trello", "typescript", "uipath", "unit testing", "unittest", "unix",
    "vector database", "vector databases", "version control", "vertex ai", "vim", "vscode",
    "vue", "waterfall", "weaviate", "windows", "word", "workflow automation",
    "xgboost" }

EDUCATION_LEVELS == {
    "associate", "b.a", "b.s", "ba", "bachelor", "bachelor's",
    "bachelors", "bs", "certificate", "certification", "certified", "degree",
    "doctoral", "doctorate", "graduate", "m.a", "m.s", "m.sc",
    "ma", "master", "master's", "masters", "mba", "ms",
    "msc", "ph.d", "phd", "postgraduate", "undergraduate" }

EXPERIENCE_KEYWORDS == {
    "architect", "entry level", "entry-level", "intern", "internship", "junior",
    "lead", "mid level", "mid-level", "principal", "senior", "sr",
    "staff", "years experience", "years of experience", "yoe" }

-----------------------------------------------------------------------------
(* matching/keyword_matcher.py: extract_keywords *)

\* \w
WordChars ==
    {Char("abcdefghijklmnopqrstuvwxyzABCDEFGHIJKLMNOPQRSTUVWXYZ0123456789_", k) :
        k \in 1..63}

IsWordAt(t, k) == k >= 1 /\ k <= Len(t) /\ Char(t, k) \in WordChars

\* \b between positions k - 1 and k
Boundary(t, k) == IsWordAt(t, k - 1) # IsWordAt(t, k)

\* re.search(r'\b' + re.escape(v) + r'\b', t)
FoundAsWord(t, v) ==
    \E k \in 1..(Len(t) - Len(v) + 1) :
        StartsAt(t, k, v) /\ Boundary(t, k) /\ Boundary(t, k + Len(v))

\* variant: the pattern accepts the term only
SkillVariants_TermOnly(skill) == {skill}

\* lines 139-148: the forms the skill pattern accepts
SkillVariants(skill) ==
    IF Char(skill, Len(skill)) = "s"
    THEN {skill, SubSeq(skill, 1, Len(skill) - 1)}
    ELSE {skill, skill \o "s"}

\* lines 150-158: phrases match anywhere, single words between word boundaries
SkillFound(text_lower, skill) ==
    \E v \in SkillVariants(skill) :
        IF Contains(skill, " ") THEN Contains(text_lower, v)
        ELSE FoundAsWord(text_lower, v)

extract_keywords(text) ==
    LET text_lower == Lower(text)
    IN  [technical_skills |-> {skill \in TECH_SKILLS : SkillFound(text_lower, skill)},
         education        |-> {edu \in EDUCATION_LEVELS : FoundAsWord(text_lower, edu)},
         experience_level |-> {exp \in EXPERIENCE_KEYWORDS : Contains(text_lower, exp)}]

-----------------------------------------------------------------------------
(* Python list helpers *)

\* the characters of the taxonomy in code-point order
CodePointOrder == " #'+-./0123456789_abcdefghijklmnopqrstuvwxyz"

CodePoint(c) == CHOOSE k \in 1..Len(CodePointOrder) : Char(CodePointOrder, k) = c

\* a < b on str
StrLess(a, b) ==
    \E k \in 1..(Len(b)) :
        /\ k <= Len(a) + 1
        /\ SubSeq(a, 1, k - 1) = SubSeq(b, 1, k - 1)
        /\ \/ k = Len(a) + 1
           \/ CodePoint(Char(a, k)) < CodePoint(Char(b, k))

SeqToSet(q) == {q[j] : j \in DOMAIN q}

-----------------------------------------------------------------------------
(* Inputs of calculate_keyword_match *)

SkillPool == << "python", "aws", "sql", "docker", "kafka", "spark", "git", "apis" >>

Prefix(q, k) == SeqToSet(SubSeq(q, 1, IF k < Len(q) THEN k ELSE Len(q)))

EducationPool == {"bachelor", "phd"}

ExperiencePool == {"senior", "junior"}

Sections(req, pref) == [present |-> TRUE, required_skills |-> req, preferred_skills |-> pref]

SectionChoices ==
    { NoSections,
      Sections("", ""),
      Sections("Good communication", "Curiosity"),
      Sections("Python and SQL", "AWS"),
      Sections("Python, AWS, SQL, Docker, Kafka and Spark", "Git"),
      Sections("", "Docker"),
      Sections("SQL databases", "") }

\* what extract_keywords finds in each section text, computed once
SectionKeywords ==
    [t \in {c.required_skills : c \in SectionChoices}
           \cup {c.preferred_skills : c \in SectionChoices} |-> extract_keywords(t)]

\* every skill an input set can hold
KnownSkills ==
    SeqToSet(SkillPool) \cup UNION {SectionKeywords[t].technical_skills : t \in DOMAIN SectionKeywords}

\* the number of known skills below each skill, computed once
SkillRank == [x \in KnownSkills |-> Cardinality({y \in KnownSkills : StrLess(y, x)})]

\* variant: the list comes out in descending order
Sorted_Descending(S) ==
    [j \in 1..Cardinality(S) |->
        CHOOSE x \in S : Cardinality({y \in S : SkillRank[y] > SkillRank[x]}) = j - 1]

\* sorted(S) for a set S of skills of the inputs
Sorted(S) ==
    [j \in 1..Cardinality(S) |->
        CHOOSE x \in S : Cardinality({y \in S : SkillRank[y] < SkillRank[x]}) = j - 1]

\* list(S): every iteration order a set can have
Orderings(S) ==
    LET base == Sorted(S)
    IN  {[j \in 1..Cardinality(S) |-> p[base[j]]] : p \in Permutations(S)}

\* technical skills vary, no education or experience markers
TechnicalInputs ==
    {[resume   |-> [technical_skills |-> r, education |-> {}, experience_level |-> {}],
      job      |-> [technical_skills |-> Prefix(SkillPool, k), education |-> {},
                    experience_level |-> {}],
      sections |-> c] :
        r \in SUBSET Prefix(SkillPool, MaxResumeSkills), k \in 0..MaxJobSkills,
        c \in SectionChoices}

\* education and experience markers vary, one technical skill asked for
LevelInputs ==
    {[resume   |-> [technical_skills |-> r, education |-> re, experience_level |-> rx],
      job      |-> [technical_skills |-> {"python"}, education |-> je,
                    experience_level |-> jx],
      sections |-> NoSections] :
        r \in SUBSET {"python"}, re \in SUBSET EducationPool, je \in SUBSET EducationPool,
        rx \in SUBSET ExperiencePool, jx \in SUBSET ExperiencePool}

MatchInputs == TechnicalInputs \cup LevelInputs

\* extract_requirements_section is not running
CleanerIdle ==
    /\ job_text = ""
    /\ lines = <<>>
    /\ i = 0
    /\ relevant_lines = <<>>
    /\ required_section = <<>>
    /\ preferred_section = <<>>
    /\ current_section = "none"
    /\ skip_section = FALSE
    /\ in_relevant_section = FALSE
    /\ result = NoResult

-----------------------------------------------------------------------------
(* matching/keyword_matcher.py: calculate_keyword_match *)

MatcherInit ==
    /\ pc = "match_call"
    /\ \E x \in MatchInputs :
        /\ resume_keywords = x.resume
        /\ job_keywords = x.job
        /\ job_sections = x.sections
    /\ all_job_skills = <<>>
    /\ required_skills = {}
    /\ preferred_skills = {}
    /\ match = NoMatch
    /\ first_match = NoMatch
    /\ CleanerIdle
    /\ ExtractorIdle
    /\ RankerIdle
    /\ AnalysisIdle
    /\ ExplainerIdle

\* line 200: job_sections and (required_skills text or preferred_skills text)
SectionsUsable ==
    /\ job_sections.present
    /\ (job_sections.required_skills # "" \/ job_sections.preferred_skills # "")

SectionRequired == SectionKeywords[job_sections.required_skills].technical_skills

SectionPreferred == SectionKeywords[job_sections.preferred_skills].technical_skills

\* int(len(all_job_skills) * 0.7)
SplitPoint(n) == FTrunc(FMul(FFromInt(n), FDivInt(7, 10)))

\* SplitPoint for every length a job skill list can have, computed once
SplitPointOf == [n \in 0..Cardinality(TECH_SKILLS) |-> SplitPoint(n)]

\* variant: the list is sliced even when split_point is 0
HeuristicSplit_AlwaysSlice(order) ==
    LET split_point == SplitPointOf[Len(order)]
    IN  /\ all_job_skills' = order
        /\ required_skills' = SeqToSet(SubSeq(order, 1, split_point))
        /\ preferred_skills' = SeqToSet(SubSeq(order, split_point + 1, Len(order)))

\* lines 214-217 and 220-223: the split of one iteration order of job_skills
HeuristicSplit(order) ==
    LET split_point == SplitPointOf[Len(order)]
    IN  /\ all_job_skills' = order
        /\ required_skills' =
               IF split_point > 0 THEN SeqToSet(SubSeq(order, 1, split_point))
               ELSE job_keywords.technical_skills
        /\ preferred_skills' =
               IF split_point > 0
               THEN SeqToSet(SubSeq(order, split_point + 1, Len(order)))
               ELSE {}

\* lines 200-209: the sections give the required and preferred skills
SplitBySections ==
    /\ pc = "match_call"
    /\ SectionsUsable
    /\ (SectionRequired # {} \/ SectionPreferred # {})
    /\ required_skills' = SectionRequired
    /\ preferred_skills' = SectionPreferred
    /\ pc' = "match_split"
    /\ UNCHANGED <<resume_keywords, job_keywords, job_sections, all_job_skills, match>>
    /\ UNCHANGED not_matcher_vars

\* lines 211-217: the sections name no skill, positional heuristic
SplitAfterEmptySections ==
    /\ pc = "match_call"
    /\ SectionsUsable
    /\ SectionRequired = {} /\ SectionPreferred = {}
    /\ \E order \in Orderings(job_keywords.technical_skills) : HeuristicSplit(order)
    /\ pc' = "match_split"
    /\ UNCHANGED <<resume_keywords, job_keywords, job_sections, match>>
    /\ UNCHANGED not_matcher_vars

\* lines 218-223: no usable sections, positional heuristic
SplitWithoutSections ==
    /\ pc = "match_call"
    /\ ~SectionsUsable
    /\ \E order \in Orderings(job_keywords.technical_skills) : HeuristicSplit(order)
    /\ pc' = "match_split"
    /\ UNCHANGED <<resume_keywords, job_keywords, job_sections, match>>
    /\ UNCHANGED not_matcher_vars

\* decimal literals of the scoring code
F080 == FDivInt(80, 100)
F020 == FDivInt(20, 100)
F08  == FDivInt(8, 10)
F10  == FFromInt(1)
F085 == FDivInt(85, 100)
F05  == FDivInt(5, 10)
F07  == FDivInt(7, 10)
F070 == FDivInt(70, 100)
F010 == FDivInt(10, 100)

\* missing required skills above this count cost 15% of the technical score
PenaltyThreshold == 3

\* lines 232-241
required_score(resume, required) ==
    IF required # {} THEN FDivInt(Cardinality(resume \cap required), Cardinality(required))
    ELSE F08

preferred_score(resume, preferred) ==
    IF preferred # {} THEN FDivInt(Cardinality(resume \cap preferred), Cardinality(preferred))
    ELSE F10

\* variant: the two weights are exchanged
technical_score_SwappedWeights(resume, required, preferred) ==
    LET weighted == FAdd(FMul(F020, required_score(resume, required)),
                         FMul(F080, preferred_score(resume, preferred)))
    IN  IF Cardinality(required \ resume) > PenaltyThreshold
        THEN FMul(weighted, F085) ELSE weighted

\* variant: the penalty already applies with PenaltyThreshold missing skills
technical_score_PenaltyAtThree(resume, required, preferred) ==
    LET weighted == FAdd(FMul(F080, required_score(resume, required)),
                         FMul(F020, preferred_score(resume, preferred)))
    IN  IF Cardinality(required \ resume) >= PenaltyThreshold
        THEN FMul(weighted, F085) ELSE weighted

\* lines 244 and 250-252
technical_score(resume, required, preferred) ==
    LET weighted == FAdd(FMul(F080, required_score(resume, required)),
                         FMul(F020, preferred_score(resume, preferred)))
    IN  IF Cardinality(required \ resume) > PenaltyThreshold
        THEN FMul(weighted, F085) ELSE weighted

\* variant: a resume without education markers is not marked down
education_score_LenientOnEmptyResume(resume_edu, job_edu) ==
    IF resume_edu # {} /\ job_edu # {}
    THEN (IF resume_edu \cap job_edu # {} THEN F10 ELSE F05)
    ELSE F10

\* lines 254-266
education_score(resume_edu, job_edu) ==
    IF resume_edu # {} /\ job_edu # {}
    THEN (IF resume_edu \cap job_edu # {} THEN F10 ELSE F05)
    ELSE IF job_edu = {} THEN F10
    ELSE F05

\* lines 268-275
experience_score(resume_exp, job_exp) ==
    IF resume_exp # {} /\ job_exp # {}
    THEN (IF resume_exp \cap job_exp # {} THEN F10 ELSE F07)
    ELSE F08

\* variant: the experience weight is 0.20, the weights sum to 1.1
overall_keyword_score_HeavyExperience(technical, education, experience) ==
    FAdd(FAdd(FMul(F070, technical), FMul(F020, education)), FMul(F020, experience))

\* lines 277-282: the sum is evaluated left to right
overall_keyword_score(technical, education, experience) ==
    FAdd(FAdd(FMul(F070, technical), FMul(F020, education)), FMul(F010, experience))

\* lines 225-300
MatchResult(resume, job, required, preferred) ==
    LET resume_skills == resume.technical_skills
        technical     == technical_score(resume_skills, required, preferred)
        education     == education_score(resume.education, job.education)
        experience    == experience_score(resume.experience_level, job.experience_level)
    IN  [returned               |-> TRUE,
         technical_score        |-> technical,
         required_skill_score   |-> required_score(resume_skills, required),
         preferred_skill_score  |-> preferred_score(resume_skills, preferred),
         education_score        |-> education,
         experience_score       |-> experience,
         overall_keyword_score  |-> overall_keyword_score(technical, education, experience),
         matched_skills         |-> Sorted((resume_skills \cap required)
                                           \cup (resume_skills \cap preferred)),
         missing_skills         |-> Sorted((required \ resume_skills)
                                           \cup (preferred \ resume_skills)),
         missing_required       |-> Sorted(required \ resume_skills),
         missing_preferred      |-> Sorted(preferred \ resume_skills),
         total_resume_skills    |-> Cardinality(resume_skills),
         total_job_skills       |-> Cardinality(job.technical_skills),
         total_required_skills  |-> Cardinality(required),
         total_preferred_skills |-> Cardinality(preferred)]

ScoreMatch ==
    /\ pc = "match_split"
    /\ match' = MatchResult(resume_keywords, job_keywords, required_skills,
                            preferred_skills)
    /\ pc' = "match_done"
    /\ UNCHANGED <<resume_keywords, job_keywords, job_sections, all_job_skills,
                   required_skills, preferred_skills>>
    /\ UNCHANGED not_matcher_vars

MatcherNext ==
    \/ SplitBySections
    \/ SplitAfterEmptySections
    \/ SplitWithoutSections
    \/ ScoreMatch

SpecMatcher == MatcherInit /\ [][MatcherNext]_vars

\* the caller keeps the result and calls again with the same arguments
CallAgain ==
    /\ pc = "match_done"
    /\ ~first_match.returned
    /\ first_match' = match
    /\ pc' = "match_call"
    /\ all_job_skills' = <<>>
    /\ required_skills' = {}
    /\ preferred_skills' = {}
    /\ match' = NoMatch
    /\ UNCHANGED <<resume_keywords, job_keywords, job_sections>>
    /\ UNCHANGED <<cleaner_vars, extractor_vars, ranker_vars, analysis_vars,
                   explainer_vars>>

RepeatNext == MatcherNext \/ CallAgain

SpecRepeat == MatcherInit /\ [][RepeatNext]_vars

-----------------------------------------------------------------------------
(* matching/keyword_matcher.py: a call of extract_keywords *)

\* the other form of a term: without its final "s", or with an "s" appended
OtherForm(term) ==
    IF Char(term, Len(term)) = "s" THEN SubSeq(term, 1, Len(term) - 1)
    ELSE term \o "s"

TaxonomyTerms == TECH_SKILLS \cup EDUCATION_LEVELS \cup EXPERIENCE_KEYWORDS

Sentences ==
    { "",
      "Senior Python developer, PhD, builds REST APIs with Node.js and C++",
      "Degrees and certifications from several universities",
      "Interns welcome: 2 years of experience with databases" }

\* a technical term as a token between two words
AsToken(term) == "use " \o term \o " daily"

\* every term, every term in its other form, every technical term as a
\* token, and a few sentences
ExtractTexts ==
    TaxonomyTerms \cup {OtherForm(term) : term \in TaxonomyTerms}
        \cup {AsToken(skill) : skill \in TECH_SKILLS} \cup Sentences

ExtractorInit ==
    /\ pc = "extract_call"
    /\ kw_text \in ExtractTexts
    /\ found = NoKeywords
    /\ CleanerIdle
    /\ MatcherIdle
    /\ RankerIdle
    /\ AnalysisIdle
    /\ ExplainerIdle

\* lines 133-180
ExtractKeywords ==
    /\ pc = "extract_call"
    /\ found' = extract_keywords(kw_text)
    /\ pc' = "extract_done"
    /\ UNCHANGED kw_text
    /\ UNCHANGED not_extractor_vars

ExtractorNext == ExtractKeywords

SpecExtractor == ExtractorInit /\ [][ExtractorNext]_vars

-----------------------------------------------------------------------------
(* matching/similarity.py: calculate_match_score *)

RECURSIVE SumOfSquares(_)
SumOfSquares(v) == IF Len(v) = 0 THEN 0 ELSE v[1] * v[1] + SumOfSquares(Tail(v))

\* the Euclidean norm of a row; the explored vectors have integer norms
row_norm(v) == CHOOSE n \in 0..SumOfSquares(v) : n * n = SumOfSquares(v)

\* sklearn normalize: the row over its norm, a zero norm replaced by 1
normalize(v) ==
    LET norm == IF row_norm(v) = 0 THEN 1 ELSE row_norm(v)
    IN  [j \in DOMAIN v |-> SDivInt(v[j], norm)]

RECURSIVE DotFrom(_, _, _)
DotFrom(x, y, k) ==
    IF k = Len(x) THEN SMul(x[k], y[k])
    ELSE SAdd(SMul(x[k], y[k]), DotFrom(x, y, k + 1))

\* sklearn cosine_similarity of two rows
cosine_similarity(x, y) == DotFrom(normalize(x), normalize(y), 1)

\* lines 16-22
calculate_match_score(resume_embedding, job_emb) ==
    cosine_similarity(resume_embedding, job_emb)

-----------------------------------------------------------------------------
(* Inputs of get_top_matching_chunks *)

MaxChunks == 3

MaxTopK == 4

\* top_k of the calls in app/copy.py and app/streamlit_app.py
AppTopK == 5

ChunkTexts == << "Python developer", "AWS and Docker", "BSc in physics", "Team lead",
                 "Hobbies" >>

\* embeddings as lists of numbers; every vector has an integer norm
EmbeddingPool == { <<1, 0>>, <<3, 4>>, <<-1, 0>>, <<0, 0>>, <<0, 2>> }

\* job embeddings along an axis, or all-zero
JobEmbeddings == { <<2, 0>>, <<0, 0>> }

\* calculate_match_score for every pair of explored vectors, computed once
ScoreOf ==
    [x \in EmbeddingPool \X JobEmbeddings |-> calculate_match_score(x[1], x[2])]

-----------------------------------------------------------------------------
(* matching/similarity.py: get_top_matching_chunks, and its call in the app *)

RankerInit ==
    /\ pc = "rank_call"
    /\ \E n \in 0..MaxChunks :
        /\ resume_chunks = SubSeq(ChunkTexts, 1, n)
        /\ resume_embeddings \in [1..n -> EmbeddingPool]
    /\ job_embedding \in JobEmbeddings
    /\ top_k \in (0..MaxTopK) \cup {AppTopK}
    /\ scores = <<>>
    /\ top_chunks = <<>>
    /\ semantic_score = SZero
    /\ CleanerIdle
    /\ MatcherIdle
    /\ ExtractorIdle
    /\ AnalysisIdle
    /\ ExplainerIdle

\* lines 40-46: one iteration, i counts from 0
ScoreChunk ==
    /\ pc = "rank_call"
    /\ Len(scores) < Len(resume_embeddings)
    /\ LET j == Len(scores) + 1
       IN  scores' = Append(scores,
               [chunk |-> resume_chunks[j],
                score |-> ScoreOf[<<resume_embeddings[j], job_embedding>>],
                index |-> j - 1])
    /\ UNCHANGED <<pc, resume_chunks, resume_embeddings, job_embedding, top_k,
                   top_chunks, semantic_score>>
    /\ UNCHANGED not_ranker_vars

\* the place list.sort(key=score, reverse=True) gives entry j: after every
\* higher score and after the equal scores that precede it (the sort is stable)
PlaceOf(q, j) ==
    1 + Cardinality({k \in DOMAIN q : SLess(q[j].score, q[k].score)})
      + Cardinality({k \in 1..(j - 1) : q[k].score = q[j].score})

\* variant: reverse=True left out
SortedByScore_Ascending(q) ==
    [p \in DOMAIN q |->
        q[CHOOSE j \in DOMAIN q :
            p = 1 + Cardinality({k \in DOMAIN q : SLess(q[k].score, q[j].score)})
                  + Cardinality({k \in 1..(j - 1) : q[k].score = q[j].score})]]

\* variant: an ascending sort that is then reversed, equal scores end up reversed
SortedByScore_ThenReversed(q) ==
    [p \in DOMAIN q |->
        q[CHOOSE j \in DOMAIN q :
            p = 1 + Cardinality({k \in DOMAIN q : SLess(q[j].score, q[k].score)})
                  + Cardinality({k \in (j + 1)..Len(q) : q[k].score = q[j].score})]]

\* line 49
SortedByScore(q) == [p \in DOMAIN q |-> q[CHOOSE j \in DOMAIN q : PlaceOf(q, j) = p]]

\* q[:k] for k >= 0
Take(q, k) == SubSeq(q, 1, IF k < Len(q) THEN k ELSE Len(q))

\* lines 49-51
SortAndReturn ==
    /\ pc = "rank_call"
    /\ Len(scores) = Len(resume_embeddings)
    /\ top_chunks' = Take(SortedByScore(scores), top_k)
    /\ pc' = "rank_done"
    /\ UNCHANGED <<resume_chunks, resume_embeddings, job_embedding, top_k, scores,
                   semantic_score>>
    /\ UNCHANGED not_ranker_vars

RECURSIVE SumScores(_, _)
\* sum(...) adds from the left, starting at 0
SumScores(q, k) ==
    IF k = 0 THEN SFromInt(0) ELSE SAdd(SumScores(q, k - 1), q[k].score)

\* app/copy.py line 261, app/streamlit_app.py line 174
MeanOfTopThree(q) == SDivSmall(SumScores(Take(q, 3), Len(Take(q, 3))), 3)

\* app/copy.py lines 253-261: the call with top_k=5 is followed by the average
AverageTopThree ==
    /\ pc = "rank_done"
    /\ top_k = AppTopK
    /\ semantic_score' = MeanOfTopThree(top_chunks)
    /\ pc' = "analysis_done"
    /\ UNCHANGED <<resume_chunks, resume_embeddings, job_embedding, top_k, scores,
                   top_chunks>>
    /\ UNCHANGED not_ranker_vars

RankerNext ==
    \/ ScoreChunk
    \/ SortAndReturn
    \/ AverageTopThree

SpecRanker == RankerInit /\ [][RankerNext]_vars

-----------------------------------------------------------------------------
(* app/copy.py: the analysis run started by the "Run Match Analysis" button *)

\* line 219: the least length of the stripped job description
MinJobChars == 50

\* hybrid scores are explored on the grid 0/ScoreSteps .. ScoreSteps/ScoreSteps
ScoreSteps == 1000

\* texts of the job description box, around the length limit of line 219
JobDescriptions ==
    { "",
      "          ",
      SubSeq(LongLine, 1, 49),
      SubSeq(LongLine, 1, 50),
      "  " \o SubSeq(LongLine, 1, 49) \o "\n\n",
      SubSeq(LongLine, 7, 56),
      " " \o SubSeq(LongLine, 7, 56) \o " ",
      LongLine }

\* the grid of hybrid scores, each the float nearest to k / ScoreSteps
HybridScoreAt == [k \in 0..ScoreSteps |-> FDivInt(k, ScoreSteps)]

\* the float literals of lines 296-304
ExcellentFrom == FDivInt(85, 100)
GoodFrom == FDivInt(71, 100)
FairFrom == FDivInt(40, 100)

\* the elif chain with the comparisons made strict
MatchCategoryOf_Strict(h) ==
    IF FLess(ExcellentFrom, h) THEN "Excellent Match"
    ELSE IF FLess(GoodFrom, h) THEN "Good Match"
    ELSE IF FLess(FairFrom, h) THEN "Fair Match"
    ELSE "Low Match"

\* lines 296-311: the if / elif chain on hybrid_score
MatchCategoryOf(h) ==
    IF ~FLess(h, ExcellentFrom) THEN "Excellent Match"
    ELSE IF ~FLess(h, GoodFrom) THEN "Good Match"
    ELSE IF ~FLess(h, FairFrom) THEN "Fair Match"
    ELSE "Low Match"

AnalysisInit ==
    /\ pc = "button"
    /\ uploaded_file \in BOOLEAN
    /\ job_description \in JobDescriptions
    /\ resume_result = "none"
    /\ job_result = "none"
    /\ steps_run = <<>>
    /\ hybrid_score = FZero
    /\ match_category = ""
    /\ CleanerIdle
    /\ MatcherIdle
    /\ ExtractorIdle
    /\ RankerIdle
    /\ ExplainerIdle

\* the checks without the strip() of line 219
InputsValid_Unstripped(file, description) ==
    /\ file
    /\ description # ""
    /\ Len(description) >= MinJobChars

\* lines 215-221: both input checks; st.stop() ends the run
InputsValid(file, description) ==
    /\ file
    /\ description # ""
    /\ Len(Strip(description)) >= MinJobChars

Validate ==
    /\ pc = "button"
    /\ pc' = IF InputsValid(uploaded_file, job_description)
             THEN "step_1" ELSE "stopped"
    /\ UNCHANGED analysis_vars
    /\ UNCHANGED not_analysis_vars

\* what follows a step that reports success or failure (lines 232-234, 245-247)
AfterStep(outcome, next) == IF outcome = "ok" THEN next ELSE "stopped"

\* lines 230-234: process_uploaded_resume, then the check of its "success"
ProcessResume ==
    /\ pc = "step_1"
    /\ \E outcome \in {"ok", "failed"} :
        /\ resume_result' = outcome
        /\ pc' = AfterStep(outcome, "step_2")
    /\ steps_run' = Append(steps_run, "process_resume")
    /\ UNCHANGED <<uploaded_file, job_description, job_result, hybrid_score,
                   match_category>>
    /\ UNCHANGED not_analysis_vars

\* lines 240-247: extract_requirements_section, process_job_description, then
\* the check of its "success"
CleanAndProcessJob ==
    /\ pc = "step_2"
    /\ \E outcome \in {"ok", "failed"} :
        /\ job_result' = outcome
        /\ pc' = AfterStep(outcome, "step_3")
    /\ steps_run' = steps_run \o <<"clean_job", "process_job">>
    /\ UNCHANGED <<uploaded_file, job_description, resume_result, hybrid_score,
                   match_category>>
    /\ UNCHANGED not_analysis_vars

\* lines 253-261: get_top_matching_chunks and the average of the top three
RankChunks ==
    /\ pc = "step_3"
    /\ pc' = "step_4"
    /\ steps_run' = Append(steps_run, "rank")
    /\ UNCHANGED <<uploaded_file, job_description, resume_result, job_result,
                   hybrid_score, match_category>>
    /\ UNCHANGED not_analysis_vars

\* lines 267-269: extract_keywords twice and calculate_keyword_match
MatchKeywords ==
    /\ pc = "step_4"
    /\ pc' = "step_5"
    /\ steps_run' = Append(steps_run, "keywords")
    /\ UNCHANGED <<uploaded_file, job_description, resume_result, job_result,
                   hybrid_score, match_category>>
    /\ UNCHANGED not_analysis_vars

\* lines 275-293: calculate_hybrid_score and its "hybrid_score"
HybridScore ==
    /\ pc = "step_5"
    /\ pc' = "display"
    /\ steps_run' = Append(steps_run, "hybrid")
    /\ \E k \in 0..ScoreSteps : hybrid_score' = HybridScoreAt[k]
    /\ UNCHANGED <<uploaded_file, job_description, resume_result, job_result,
                   match_category>>
    /\ UNCHANGED not_analysis_vars

\* lines 296-311
ShowVerdict ==
    /\ pc = "display"
    /\ pc' = "shown"
    /\ match_category' = MatchCategoryOf(hybrid_score)
    /\ UNCHANGED <<uploaded_file, job_description, resume_result, job_result,
                   steps_run, hybrid_score>>
    /\ UNCHANGED not_analysis_vars

AnalysisNext ==
    \/ Validate
    \/ ProcessResume
    \/ CleanAndProcessJob
    \/ RankChunks
    \/ MatchKeywords
    \/ HybridScore
    \/ ShowVerdict

SpecAnalysis == AnalysisInit /\ [][AnalysisNext]_vars

-----------------------------------------------------------------------------
(* rag/explainer.py: generate_match_explanation and the explanation tab of *)
(* app/streamlit_app.py                                                    *)

\* n / 1_000_000 for an int n >= 0 (true division): two exact divisions by 1000
FDivMillion(n) ==
    LET k  == 2 * MantissaBits
        q1 == BDivSmall(BShl(BFromInt(n), k), 1000)
        q2 == BDivSmall(q1.quot, 1000)
    IN  FRound(BAdd(BShl(q2.quot, 1),
                    IF q1.rem = 0 /\ q2.rem = 0 THEN <<>> ELSE <<1>>), 0 - (k + 1))

\* a limit of 10 dollars
FREE_TIER_LIMIT_Ten == FFromInt(10)

\* line 10
FREE_TIER_LIMIT == FFromInt(5)

\* lines 26-28
estimate_cost(input_tokens, output_tokens) ==
    LET input_cost  == FMul(FDivMillion(input_tokens), FFromInt(3))
        output_cost == FMul(FDivMillion(output_tokens), FFromInt(15))
    IN  FAdd(input_cost, output_cost)

\* response.usage: a prompt that fills the context window, or most of it, and
\* an answer within max_tokens=500
Usages ==
    { [input_tokens |-> 200000, output_tokens |-> 500],
      [input_tokens |-> 150000, output_tokens |-> 400] }

\* lines 67-72: the dict returned without an API key
KeyNotSet ==
    [kind |-> "key_not_set", strengths |-> <<>>, gaps |-> <<>>, cost |-> FZero]

\* lines 152-158: the dict returned by the except clause; its text carries
\* str(e), so kind tells which statement raised
ErrorGenerating(e) ==
    [kind |-> e, strengths |-> <<>>, gaps |-> <<>>, cost |-> FZero]

\* lines 144-150: the dict returned after a response was parsed
Parsed(cost) ==
    [kind |-> "analysis", strengths |-> <<"strength">>, gaps |-> <<"gap">>,
     cost |-> cost]

ExplainerInit ==
    /\ pc = "explain"
    /\ total_cost = FZero
    /\ api_key_set \in BOOLEAN
    /\ usage \in Usages
    /\ call_pc = [s \in Sessions |-> "idle"]
    /\ call_cost = [s \in Sessions |-> FZero]
    /\ cost_read = [s \in Sessions |-> FZero]
    /\ cost_at_call = [s \in Sessions |-> FZero]
    /\ explanation = [s \in Sessions |-> NoExplanation]
    /\ shown = [s \in Sessions |-> "nothing"]
    /\ CleanerIdle
    /\ MatcherIdle
    /\ ExtractorIdle
    /\ RankerIdle
    /\ AnalysisIdle

\* line 34: the test of check_free_tier
LimitReached(cost) == ~FLess(cost, FREE_TIER_LIMIT)

\* lines 62-72: check_free_tier, then the API key
BeginCall(s) ==
    /\ pc = "explain"
    /\ call_pc[s] = "idle"
    /\ shown' = [shown EXCEPT ![s] = "nothing"]
    /\ cost_at_call' = [cost_at_call EXCEPT ![s] = total_cost]
    /\ IF LimitReached(total_cost)
       THEN /\ call_pc' = [call_pc EXCEPT ![s] = "raised"]
            /\ UNCHANGED explanation
       ELSE IF ~api_key_set
       THEN /\ call_pc' = [call_pc EXCEPT ![s] = "returned"]
            /\ explanation' = [explanation EXCEPT ![s] = KeyNotSet]
       ELSE /\ call_pc' = [call_pc EXCEPT ![s] = "prompt"]
            /\ UNCHANGED explanation
    /\ UNCHANGED <<pc, total_cost, api_key_set, usage, call_cost, cost_read>>
    /\ UNCHANGED not_explainer_vars

\* lines 75-112: the prompt is built and the request is sent
SendRequest(s) ==
    /\ pc = "explain"
    /\ call_pc[s] = "prompt"
    /\ call_pc' = [call_pc EXCEPT ![s] = "request"]
    /\ UNCHANGED <<pc, total_cost, api_key_set, usage, call_cost, cost_read,
                   cost_at_call, explanation, shown>>
    /\ UNCHANGED not_explainer_vars

\* the request with its cost added to the total even when it raises
ApiResponse_ChargesFailure(s) ==
    /\ pc = "explain"
    /\ call_pc[s] = "request"
    /\ \/ /\ call_pc' = [call_pc EXCEPT ![s] = "returned"]
          /\ explanation' = [explanation EXCEPT ![s] = ErrorGenerating("api_error")]
          /\ total_cost' = FAdd(total_cost,
                                estimate_cost(usage.input_tokens, usage.output_tokens))
          /\ UNCHANGED call_cost
       \/ /\ call_pc' = [call_pc EXCEPT ![s] = "load_total"]
          /\ call_cost' = [call_cost EXCEPT ![s] =
                              estimate_cost(usage.input_tokens, usage.output_tokens)]
          /\ UNCHANGED <<explanation, total_cost>>
    /\ UNCHANGED <<pc, api_key_set, usage, cost_read, cost_at_call, shown>>
    /\ UNCHANGED not_explainer_vars

\* lines 104-116: the request raises, or answers and its cost is estimated
ApiResponse(s) ==
    /\ pc = "explain"
    /\ call_pc[s] = "request"
    /\ \/ /\ call_pc' = [call_pc EXCEPT ![s] = "returned"]
          /\ explanation' = [explanation EXCEPT ![s] = ErrorGenerating("api_error")]
          /\ UNCHANGED call_cost
       \/ /\ call_pc' = [call_pc EXCEPT ![s] = "load_total"]
          /\ call_cost' = [call_cost EXCEPT ![s] =
                              estimate_cost(usage.input_tokens, usage.output_tokens)]
          /\ UNCHANGED explanation
    /\ UNCHANGED <<pc, total_cost, api_key_set, usage, cost_read, cost_at_call, shown>>
    /\ UNCHANGED not_explainer_vars

\* line 117, first half of +=: the global is loaded
LoadTotalCost(s) ==
    /\ pc = "explain"
    /\ call_pc[s] = "load_total"
    /\ cost_read' = [cost_read EXCEPT ![s] = total_cost]
    /\ call_pc' = [call_pc EXCEPT ![s] = "store_total"]
    /\ UNCHANGED <<pc, total_cost, api_key_set, usage, call_cost, cost_at_call,
                   explanation, shown>>
    /\ UNCHANGED not_explainer_vars

\* line 117, second half of +=: the sum is stored
StoreTotalCost(s) ==
    /\ pc = "explain"
    /\ call_pc[s] = "store_total"
    /\ total_cost' = FAdd(cost_read[s], call_cost[s])
    /\ cost_read' = [cost_read EXCEPT ![s] = FZero]
    /\ call_pc' = [call_pc EXCEPT ![s] = "parse"]
    /\ UNCHANGED <<pc, api_key_set, usage, call_cost, cost_at_call, explanation, shown>>
    /\ UNCHANGED not_explainer_vars

\* lines 120-158: the response is parsed and returned, or response.content[0]
\* raises and the except clause returns
ParseResponse(s) ==
    /\ pc = "explain"
    /\ call_pc[s] = "parse"
    /\ \E readable \in BOOLEAN :
        explanation' = [explanation EXCEPT ![s] =
                           IF readable THEN Parsed(call_cost[s])
                           ELSE ErrorGenerating("index_error")]
    /\ call_cost' = [call_cost EXCEPT ![s] = FZero]
    /\ call_pc' = [call_pc EXCEPT ![s] = "returned"]
    /\ UNCHANGED <<pc, total_cost, api_key_set, usage, cost_read, cost_at_call, shown>>
    /\ UNCHANGED not_explainer_vars

\* streamlit_app.py lines 203-210: st.write(explanation["explanation"])
ShowExplanation(s) ==
    /\ pc = "explain"
    /\ call_pc[s] = "returned"
    /\ shown' = [shown EXCEPT ![s] = explanation[s].kind]
    /\ explanation' = [explanation EXCEPT ![s] = NoExplanation]
    /\ call_pc' = [call_pc EXCEPT ![s] = "idle"]
    /\ cost_at_call' = [cost_at_call EXCEPT ![s] = FZero]
    /\ UNCHANGED <<pc, total_cost, api_key_set, usage, call_cost, cost_read>>
    /\ UNCHANGED not_explainer_vars

\* streamlit_app.py lines 228-234: except FreeAPILimitError
ShowFallback(s) ==
    /\ pc = "explain"
    /\ call_pc[s] = "raised"
    /\ shown' = [shown EXCEPT ![s] = "fallback"]
    /\ call_pc' = [call_pc EXCEPT ![s] = "idle"]
    /\ cost_at_call' = [cost_at_call EXCEPT ![s] = FZero]
    /\ UNCHANGED <<pc, total_cost, api_key_set, usage, call_cost, cost_read,
                   explanation>>
    /\ UNCHANGED not_explainer_vars

ExplainerNext(s) ==
    \/ BeginCall(s)
    \/ SendRequest(s)
    \/ ApiResponse(s)
    \/ LoadTotalCost(s)
    \/ StoreTotalCost(s)
    \/ ParseResponse(s)
    \/ ShowExplanation(s)
    \/ ShowFallback(s)

\* one session: calls one after another
SpecExplainer == ExplainerInit /\ [][ExplainerNext("a")]_vars

\* the sessions of one server process, interleaved
SpecSessions == ExplainerInit /\ [][\E s \in Sessions : ExplainerNext(s)]_vars

-----------------------------------------------------------------------------
(* Either call *)

Init ==
    \/ CleanerInit
    \/ MatcherInit
    \/ ExtractorInit
    \/ RankerInit
    \/ AnalysisInit
    \/ ExplainerInit

Next ==
    \/ CleanerNext
    \/ RepeatNext
    \/ ExtractorNext
    \/ RankerNext
    \/ AnalysisNext
    \/ \E s \in Sessions : ExplainerNext(s)

Spec == Init /\ [][Next]_vars

-----------------------------------------------------------------------------
(* Properties of extract_requirements_section *)

\* the loop is about to read a non-blank line
Reading == pc = "loop" /\ i <= Len(lines) /\ ~LineClass[lines[i]].blank

\* a header that turns skipping off: relevant marker, no irrelevant marker
IsHeader(line) ==
    /\ ~LineClass[line].blank
    /\ LineClass[line].relevant
    /\ ~LineClass[line].irrelevant

\* line k lies at or after an irrelevant marker line with no header in between
InSkippedRegion(ls, k) ==
    \E j \in 1..k :
        /\ ~LineClass[ls[j]].blank
        /\ LineClass[ls[j]].irrelevant
        /\ \A m \in (j + 1)..k : ~IsHeader(ls[m])

\* C1: from an irrelevant marker line on, up to the next relevant header, no
\* line read is added to the cleaned, required or preferred list.
C1_SkippedLinesExcluded ==
    [][(Reading /\ InSkippedRegion(lines, i))
        => UNCHANGED <<relevant_lines, required_section, preferred_section>>]_vars

\* a line after the marker line is being skipped although a section is active
C1_Witness ==
    /\ Reading
    /\ InSkippedRegion(lines, i)
    /\ ~LineClass[lines[i]].irrelevant
    /\ current_section # "none"
    /\ relevant_lines # <<>>

\* C2: on the example text the required output has the Python line and not
\* the Docker line, the preferred output the Docker line and not the Python
\* line, and the cleaned text both.
C2_ExampleSplit ==
    (pc = "done" /\ job_text = ExampleText) =>
        /\ Contains(result.required_skills, "Python required")
        /\ ~Contains(result.required_skills, "Docker nice to have")
        /\ Contains(result.preferred_skills, "Docker nice to have")
        /\ ~Contains(result.preferred_skills, "Python required")
        /\ Contains(result.cleaned_text, "Python required")
        /\ Contains(result.cleaned_text, "Docker nice to have")

\* the line-by-line pass produced a cleaned text under MinCleanedLen
ShortCleaned == Len(JoinLines(relevant_lines)) < MinCleanedLen

\* the non-blank lines of text without the first and the last fifth
MiddleLines(text) ==
    LET nb == NonBlankLines(text)
        n  == Len(nb)
    IN  [j \in 1..(n - 2 * (n \div 5)) |-> nb[j + (n \div 5)]]

\* C3 as stated: a short cleaned text is replaced, as cleaned and as required
\* text, by the non-blank input lines minus the first and last fifth, for
\* every number of non-blank lines (compared line by line, blank lines aside).
C3_MiddleForEveryCount ==
    (pc = "done" /\ ShortCleaned) =>
        /\ NonBlankLines(result.cleaned_text) = MiddleLines(job_text)
        /\ NonBlankLines(result.required_skills) = MiddleLines(job_text)

\* C3 amended: with at least MinMiddleLines non-blank lines the replacement is
\* the non-blank lines minus the first and last fifth; with fewer it is the
\* input text unchanged; the required text equals the cleaned text.
C3_MiddleFromTenLines ==
    (pc = "done" /\ ShortCleaned) =>
        /\ result.required_skills = result.cleaned_text
        /\ IF Len(NonBlankLines(job_text)) >= MinMiddleLines
           THEN SplitLines(result.cleaned_text) = MiddleLines(job_text)
           ELSE result.cleaned_text = job_text

\* the fallback sliced a text whose line count is no multiple of five
C3_Witness ==
    /\ pc = "done"
    /\ ShortCleaned
    /\ Len(NonBlankLines(job_text)) >= MinMiddleLines
    /\ Len(NonBlankLines(job_text)) % 5 # 0
    /\ result.cleaned_text # job_text

\* C4: when the line-by-line pass leaves the required and the preferred list
\* empty, the returned texts are those of the regex pass over the full text.
C4_RegexBackupDecides ==
    (pc = "done" /\ required_section = <<>> /\ preferred_section = <<>>) =>
        /\ result.required_skills = regex_separate_requirements(job_text).required
        /\ result.preferred_skills = regex_separate_requirements(job_text).preferred

RECURSIVE IsSubsequence(_, _)
\* a can be obtained from b by deleting elements
IsSubsequence(a, b) ==
    IF Len(a) = 0 THEN TRUE
    ELSE IF Len(b) = 0 THEN FALSE
    ELSE IF a[1] = b[1] THEN IsSubsequence(Tail(a), Tail(b))
    ELSE IsSubsequence(a, Tail(b))

\* C6: the lines of the returned cleaned_text are a subsequence of the lines
\* of full_text, which is the input text.
C6_CleanedIsSubsequence ==
    pc = "done" =>
        /\ result.full_text = job_text
        /\ IsSubsequence(SplitLines(result.cleaned_text), SplitLines(result.full_text))

\* the normal path returned a cleaned text with some input line filtered out
C6_Witness ==
    /\ pc = "done"
    /\ ~ShortCleaned
    /\ result.cleaned_text = JoinLines(relevant_lines)
    /\ Len(relevant_lines) < Len(NonBlankLines(job_text))

-----------------------------------------------------------------------------
(* Properties of calculate_keyword_match *)

Returned == pc = "match_done"

\* floor(x * 10^6) for a float 0 <= x < 2
Micro(x) ==
    IF Len(x.m) = 0 THEN 0
    ELSE BToInt(BShr(BMul(x.m, BFromInt(1000000)), 0 - x.e))

\* the next float above x > 0
FSucc(x) == FRound(BAdd(x.m, <<1>>), x.e)

Abs(n) == IF n < 0 THEN 0 - n ELSE n

\* x equals the fraction a / b to within 2 * 10^-6
NearFraction(x, a, b) == Abs(Micro(x) * b - 1000000 * a) <= 2 * b

\* |resume /\ S| / |S| as a fraction, with the default of an empty S
ShareNum(S, default) ==
    IF S = {} THEN default[1]
    ELSE Cardinality(resume_keywords.technical_skills \cap S)

ShareDen(S, default) == IF S = {} THEN default[2] ELSE Cardinality(S)

ExampleCase ==
    /\ Returned
    /\ resume_keywords.technical_skills = {"python", "aws"}
    /\ required_skills = {"python", "sql"}
    /\ preferred_skills = {"aws"}

EmptyCase == Returned /\ required_skills = {} /\ preferred_skills = {}

\* the scores are the stated shares and, without penalty, their 80/20 sum
C7_Formula ==
    Returned =>
        LET a == ShareNum(required_skills, <<4, 5>>)
            b == ShareDen(required_skills, <<4, 5>>)
            c == ShareNum(preferred_skills, <<1, 1>>)
            d == ShareDen(preferred_skills, <<1, 1>>)
        IN  /\ NearFraction(match.required_skill_score, a, b)
            /\ NearFraction(match.preferred_skill_score, c, d)
            /\ Len(match.missing_required) <= PenaltyThreshold
                => NearFraction(match.technical_score, 8 * a * d + 2 * c * b, 10 * b * d)

\* C7 as stated: the shares, their 80/20 sum, and the two examples with the
\* technical scores 0.60 and exactly 0.84.
C7_ExactExampleScores ==
    /\ C7_Formula
    /\ ExampleCase =>
        /\ match.required_skill_score = FDivInt(5, 10)
        /\ match.preferred_skill_score = FFromInt(1)
        /\ match.technical_score = FDivInt(60, 100)
        /\ match.missing_required = <<"sql">>
    /\ EmptyCase => match.technical_score = FDivInt(84, 100)

\* C7 amended: the shares and their 80/20 sum as stated; the example gives
\* 0.5, 1.0, missing_required ["sql"] and the float just above 0.60, the
\* empty sets the float just above 0.84 (the sums are rounded).
C7_RoundedExampleScores ==
    /\ C7_Formula
    /\ ExampleCase =>
        /\ match.required_skill_score = FDivInt(5, 10)
        /\ match.preferred_skill_score = FFromInt(1)
        /\ match.technical_score = FSucc(FDivInt(60, 100))
        /\ match.missing_required = <<"sql">>
    /\ EmptyCase => match.technical_score = FSucc(FDivInt(84, 100))

\* the example of the claim has been scored
C7_Witness == ExampleCase /\ match.returned

\* the 80/20 sum of the two returned shares
WeightedSum ==
    FAdd(FMul(FDivInt(80, 100), match.required_skill_score),
         FMul(FDivInt(20, 100), match.preferred_skill_score))

\* C8: the technical score is the weighted sum times 0.85 when more than 3
\* required skills are missing, and the weighted sum itself otherwise.
C8_PenaltyAboveThree ==
    Returned =>
        /\ match.missing_required = Sorted(required_skills \ resume_keywords.technical_skills)
        /\ match.technical_score =
              IF Len(match.missing_required) > 3
              THEN FMul(WeightedSum, FDivInt(85, 100))
              ELSE WeightedSum

\* four required skills are missing and the penalty lowered the score
C8_Witness ==
    /\ Returned
    /\ Len(match.missing_required) = 4
    /\ FLess(match.technical_score, WeightedSum)

InUnitInterval(x) == FLeq(FZero, x) /\ FLeq(x, FFromInt(1))

\* C9: the four returned scores lie in [0, 1].
C9_ScoresInUnitInterval ==
    Returned =>
        /\ InUnitInterval(match.technical_score)
        /\ InUnitInterval(match.education_score)
        /\ InUnitInterval(match.experience_score)
        /\ InUnitInterval(match.overall_keyword_score)

\* every sub-score is 1.0 and the overall score is still not above 1
C9_Witness ==
    /\ Returned
    /\ match.technical_score = FFromInt(1)
    /\ match.education_score = FFromInt(1)
    /\ match.experience_score = FFromInt(1)
    /\ FLeq(match.overall_keyword_score, FFromInt(1))

\* the positional heuristic has split job_skills
HeuristicPath ==
    /\ pc \in {"match_split", "match_done"}
    /\ \/ ~SectionsUsable
       \/ (SectionRequired = {} /\ SectionPreferred = {})

FirstOf(q, k) == SeqToSet(SubSeq(q, 1, k))

RestOf(q, k) == SeqToSet(SubSeq(q, k + 1, Len(q)))

IsListOf(q, S) == Len(q) = Cardinality(S) /\ SeqToSet(q) = S

SplitIsPartition ==
    /\ required_skills \cap preferred_skills = {}
    /\ required_skills \cup preferred_skills = job_keywords.technical_skills

\* C10 as stated: for every n the first floor(0.7 n) skills of the list are
\* the required set and the others the preferred set, a partition of the
\* job's technical skills.
C10_SplitForEveryCount ==
    HeuristicPath =>
        LET n == Len(all_job_skills)
        IN  /\ IsListOf(all_job_skills, job_keywords.technical_skills)
            /\ required_skills = FirstOf(all_job_skills, (7 * n) \div 10)
            /\ preferred_skills = RestOf(all_job_skills, (7 * n) \div 10)
            /\ SplitIsPartition

\* list lengths at which int(n * 0.7) is not floor(0.7 n)
RoundedDownLengths ==
    {n \in DOMAIN SplitPointOf : SplitPointOf[n] # (7 * n) \div 10}

\* C10 amended: for n >= 2 the first int(n * 0.7) skills are required and the
\* others preferred, int(n * 0.7) being floor(0.7 n) except at 90, 170 and 180
\* where it is one less; a single skill is required; a partition in all cases.
C10_SplitFromTwoSkills ==
    HeuristicPath =>
        LET n == Len(all_job_skills)
        IN  /\ IsListOf(all_job_skills, job_keywords.technical_skills)
            /\ RoundedDownLengths = {90, 170, 180}
            /\ \A k \in RoundedDownLengths : SplitPointOf[k] = ((7 * k) \div 10) - 1
            /\ IF n >= 2
               THEN /\ required_skills = FirstOf(all_job_skills, SplitPointOf[n])
                    /\ preferred_skills = RestOf(all_job_skills, SplitPointOf[n])
               ELSE /\ required_skills = job_keywords.technical_skills
                    /\ preferred_skills = {}
            /\ SplitIsPartition

\* sections that name no skill led to a split with both parts non-empty
C10_Witness ==
    /\ HeuristicPath
    /\ SectionsUsable
    /\ Len(all_job_skills) >= 3
    /\ required_skills # {}
    /\ preferred_skills # {}

\* both calls have returned
CalledTwice == pc = "match_done" /\ first_match.returned

\* C11: two calls with equal arguments return equal results, also when the
\* positional heuristic turns the job skill set into a list.
C11_EqualResults == CalledTwice => match = first_match

\* q is strictly ascending in str order, hence free of duplicates
IsAscending(q) == \A j \in 1..Len(q) : \A k \in (j + 1)..Len(q) : StrLess(q[j], q[k])

\* C12: matched_skills and missing_skills are the ascending lists of
\* resume /\ (required \/ preferred) and of (required \/ preferred) \ resume,
\* disjoint and covering required \/ preferred; missing_required and
\* missing_preferred are ascending as well.
C12_SortedMatchedAndMissing ==
    Returned =>
        LET resume == resume_keywords.technical_skills
            asked  == required_skills \cup preferred_skills
        IN  /\ IsAscending(match.matched_skills)
            /\ IsAscending(match.missing_skills)
            /\ IsAscending(match.missing_required)
            /\ IsAscending(match.missing_preferred)
            /\ SeqToSet(match.matched_skills) = resume \cap asked
            /\ SeqToSet(match.missing_skills) = asked \ resume
            /\ SeqToSet(match.matched_skills) \cap SeqToSet(match.missing_skills) = {}
            /\ SeqToSet(match.matched_skills) \cup SeqToSet(match.missing_skills) = asked
            /\ SeqToSet(match.missing_required) = required_skills \ resume
            /\ SeqToSet(match.missing_preferred) = preferred_skills \ resume

\* several skills matched and several missing, from both sets
C12_Witness ==
    /\ Returned
    /\ Len(match.matched_skills) >= 2
    /\ Len(match.missing_required) >= 2
    /\ Len(match.missing_preferred) >= 1
    /\ Len(match.missing_skills) > Len(match.missing_required)

-----------------------------------------------------------------------------
(* Properties of extract_keywords *)

Extracted == pc = "extract_done"

EndsInS(term) == Char(term, Len(term)) = "s"

\* C13: a technical term ending in "s" is detected in a text that is its
\* singular, and a technical term not ending in "s" in a text that is the
\* term with an "s" appended.
C13_SkillFoundInOtherForm ==
    Extracted =>
        \A skill \in TECH_SKILLS :
            /\ (EndsInS(skill) /\ kw_text = SubSeq(skill, 1, Len(skill) - 1))
                  => skill \in found.technical_skills
            /\ (~EndsInS(skill) /\ kw_text = skill \o "s")
                  => skill \in found.technical_skills

\* the singular of a term ending in "s" has been searched and the term found
C13_Witness ==
    /\ Extracted
    /\ kw_text = "kubernete"
    /\ "kubernetes" \in found.technical_skills

\* C14: education-level and experience-level terms are detected from their
\* singular or plural variant as technical skills are.
C14_LevelsFoundInOtherForm ==
    Extracted =>
        /\ \A edu \in EDUCATION_LEVELS : kw_text = OtherForm(edu) => edu \in found.education
        /\ \A exp \in EXPERIENCE_KEYWORDS :
              kw_text = OtherForm(exp) => exp \in found.experience_level

\* C15: education_score is 1.0 when the job has no education markers or
\* shares one with the resume, and 0.5 in every other case.
C15_EducationScore ==
    Returned =>
        match.education_score =
            IF \/ job_keywords.education = {}
               \/ resume_keywords.education \cap job_keywords.education # {}
            THEN FFromInt(1) ELSE FDivInt(1, 2)

\* resume and job both carry education markers, none in common
C15_Witness ==
    /\ Returned
    /\ resume_keywords.education # {}
    /\ job_keywords.education # {}
    /\ resume_keywords.education \cap job_keywords.education = {}
    /\ match.education_score = FDivInt(1, 2)

-----------------------------------------------------------------------------
(* Properties of get_top_matching_chunks and of the semantic score *)

Ranked == pc \in {"rank_done", "analysis_done"}

Min(a, b) == IF a < b THEN a ELSE b

IsZeroVector(v) == \A j \in DOMAIN v : v[j] = 0

\* C16: the returned list is in non-increasing score order, has
\* min(N, top_k) entries, and each entry carries the text and the original
\* index of the chunk whose embedding gave its score.
C16_SortedTopK ==
    Ranked =>
        /\ Len(top_chunks) = Min(Len(resume_chunks), top_k)
        /\ \A p \in 1..(Len(top_chunks) - 1) :
              SLeq(top_chunks[p + 1].score, top_chunks[p].score)
        /\ \A p \in DOMAIN top_chunks :
              LET entry == top_chunks[p]
              IN  /\ entry.index \in 0..(Len(resume_chunks) - 1)
                  /\ entry.chunk = resume_chunks[entry.index + 1]
                  /\ entry.score = calculate_match_score(
                         resume_embeddings[entry.index + 1], job_embedding)
        /\ \A p, r \in DOMAIN top_chunks : p # r => top_chunks[p].index # top_chunks[r].index

\* three chunks are cut to two and the last chunk scores highest
C16_Witness ==
    /\ pc = "rank_done"
    /\ Len(resume_chunks) = 3
    /\ top_k = 2
    /\ Len(top_chunks) = 2
    /\ top_chunks[1].index = 2
    /\ SLess(top_chunks[2].score, top_chunks[1].score)

\* the original indices of the returned entries
KeptIndices == {top_chunks[p].index : p \in DOMAIN top_chunks}

\* C17: equal scores appear in ascending order of original index, and of a
\* tie across the cut-off the smaller original indices are kept.
C17_TiesByOriginalIndex ==
    Ranked =>
        /\ \A p \in DOMAIN top_chunks : \A r \in (p + 1)..Len(top_chunks) :
              top_chunks[p].score = top_chunks[r].score
                  => top_chunks[p].index < top_chunks[r].index
        /\ \A p \in DOMAIN top_chunks : \A j \in DOMAIN scores :
              (scores[j].index \notin KeptIndices /\ scores[j].score = top_chunks[p].score)
                  => top_chunks[p].index < scores[j].index

\* a tie lies across the cut-off: a dropped chunk scores as the last kept one
C17_Witness ==
    /\ pc = "rank_done"
    /\ Len(top_chunks) >= 2
    /\ top_chunks[1].score = top_chunks[2].score
    /\ \E j \in DOMAIN scores :
        /\ scores[j].index \notin KeptIndices
        /\ scores[j].score = top_chunks[Len(top_chunks)].score

\* C18: no score, and in particular not the score 0, is ever returned for an
\* all-zero resume or job embedding: such a call ends in an error.
C18_ZeroVectorRaises ==
    \A j \in DOMAIN scores :
        ~(IsZeroVector(resume_embeddings[j]) \/ IsZeroVector(job_embedding))

\* C19: the score of every pair of non-zero embeddings lies in [0, 1].
C19_ScoreInUnitInterval ==
    \A j \in DOMAIN scores :
        (~IsZeroVector(resume_embeddings[j]) /\ ~IsZeroVector(job_embedding))
            => SLeq(SFromInt(0), scores[j].score) /\ SLeq(scores[j].score, SFromInt(1))

\* C20: the semantic score is the mean of the top three chunk scores, and of
\* the scores that exist when there are fewer than three chunks.
C20_MeanOfExistingScores ==
    (pc = "analysis_done" /\ Len(top_chunks) >= 1) =>
        LET n == Min(3, Len(top_chunks))
        IN  semantic_score = SDivSmall(SumScores(top_chunks, n), n)

-----------------------------------------------------------------------------
(* Further properties of extract_requirements_section *)

\* a non-blank line with an irrelevant and a relevant marker
HasBothMarkers(line) ==
    /\ ~LineClass[line].blank
    /\ LineClass[line].irrelevant
    /\ LineClass[line].relevant

\* C26: a non-blank line with both an irrelevant and a relevant marker is
\* dropped from the three lists, turns skipping on, does not turn relevance
\* on and leaves the classification as it is.
C26_BothMarkersIrrelevant ==
    [][(Reading /\ HasBothMarkers(lines[i]))
        => /\ UNCHANGED <<relevant_lines, required_section, preferred_section>>
           /\ skip_section'
           /\ ~in_relevant_section'
           /\ current_section' = current_section]_vars

\* a line with both markers was read inside a classified section
C26_Witness ==
    /\ pc = "loop"
    /\ i > 1
    /\ HasBothMarkers(lines[i - 1])
    /\ current_section # "none"
    /\ relevant_lines # <<>>
    /\ skip_section

\* the regex pass of lines 118-121 is reached with both texts empty
RegexPassRuns ==
    /\ (IF Len(JoinLines(relevant_lines)) < 100
        THEN extract_middle_section(job_text)
        ELSE JoinLines(required_section)) = ""
    /\ JoinLines(preferred_section) = ""

C27_RegexWitness == pc = "done" /\ RegexPassRuns

-----------------------------------------------------------------------------
(* Further properties of extract_keywords *)

\* C28: every technical term, "c++" and "c#" included, is detected in a text
\* where it stands as a token between spaces.
C28_TokenDetected ==
    Extracted =>
        \A skill \in TECH_SKILLS :
            kw_text = "use " \o skill \o " daily" => skill \in found.technical_skills

-----------------------------------------------------------------------------
(* Properties of the analysis run of the UI *)

\* the band of the score k / ScoreSteps, by exact integer comparison
BandOf(k) ==
    IF 100 * k >= 85 * ScoreSteps THEN "Excellent Match"
    ELSE IF 100 * k >= 71 * ScoreSteps THEN "Good Match"
    ELSE IF 100 * k >= 40 * ScoreSteps THEN "Fair Match"
    ELSE "Low Match"

BandRank(category) ==
    CASE category = "Low Match" -> 0
      [] category = "Fair Match" -> 1
      [] category = "Good Match" -> 2
      [] category = "Excellent Match" -> 3

\* the verdict of every score of the grid
VerdictAt == [k \in 0..ScoreSteps |-> MatchCategoryOf(HybridScoreAt[k])]

VerdictMonotone ==
    \A j \in 0..ScoreSteps : \A k \in j..ScoreSteps :
        BandRank(VerdictAt[j]) <= BandRank(VerdictAt[k])

\* C21: the verdict shown for a hybrid score h is one of four bands with
\* inclusive lower bounds: Excellent iff h >= 0.85, Good iff 0.71 <= h < 0.85,
\* Fair iff 0.40 <= h < 0.71, Low iff h < 0.40; a larger score never gets a
\* lower verdict.
C21_VerdictBands ==
    /\ pc = "shown" =>
        /\ match_category \in {"Excellent Match", "Good Match", "Fair Match", "Low Match"}
        /\ \A k \in 0..ScoreSteps :
            hybrid_score = HybridScoreAt[k] => match_category = BandOf(k)
    /\ VerdictMonotone

\* a score on a band's lower bound has been shown with the band's verdict
C21_Witness ==
    /\ pc = "shown"
    /\ hybrid_score = GoodFrom
    /\ match_category = "Good Match"

Ran(step) == \E j \in DOMAIN steps_run : steps_run[j] = step

\* C22: no job cleaning, ranking, keyword matching or hybrid scoring step runs
\* unless a resume was uploaded and the stripped job description has at least
\* 50 characters, and a failed resume or job processing step is the last step
\* of its run.
C22_NoStepWithoutValidInputs ==
    /\ steps_run # <<>> => uploaded_file /\ Len(Strip(job_description)) >= 50
    /\ resume_result = "failed" => steps_run = <<"process_resume">>
    /\ job_result = "failed" =>
        steps_run = <<"process_resume", "clean_job", "process_job">>
    /\ Ran("clean_job") => resume_result = "ok"
    /\ (Ran("rank") \/ Ran("keywords") \/ Ran("hybrid")) =>
        resume_result = "ok" /\ job_result = "ok"

\* a run was stopped by a failed job processing step
C22_Witness ==
    /\ pc = "stopped"
    /\ job_result = "failed"
    /\ steps_run = <<"process_resume", "clean_job", "process_job">>

\* a run was stopped at the input checks: a description of 50 characters
\* that strips to 49
C22_RejectedWitness ==
    /\ pc = "stopped"
    /\ uploaded_file
    /\ Len(job_description) = 50
    /\ steps_run = <<>>

-----------------------------------------------------------------------------
(* Properties of the explanation generator *)

\* the accumulated cost is 5 dollars or more
AtLimit == FLeq(FFromInt(5), total_cost)

\* C23: whenever the explanation collaborator fails (the API call raises, the
\* key is missing, the budget is exhausted) the explanation tab shows the
\* deterministic fallback explanation and never an error text.
C23_FallbackOnFailure ==
    \A s \in Sessions : shown[s] \in {"nothing", "analysis", "fallback"}

\* C24: once the accumulated cost has reached the limit, every later call
\* raises FreeAPILimitError before any request is prepared or sent, and the
\* accumulated cost stays as it is.
C24_BlockedForever ==
    /\ [](AtLimit =>
            \A s \in Sessions :
                call_pc[s] \notin {"prompt", "request", "load_total", "store_total"})
    /\ [][AtLimit =>
            /\ total_cost' = total_cost
            /\ \A s \in Sessions :
                (call_pc[s] = "idle" /\ call_pc'[s] # "idle") => call_pc'[s] = "raised"]_vars

\* a call was refused at the limit
C24_Witness == AtLimit /\ call_pc["a"] = "raised"

\* C25: the accumulated cost never exceeds FREE_TIER_LIMIT (5.0 dollars).
C25_NeverAboveLimit == FLeq(total_cost, FFromInt(5))

\* every += of a call adds the call's cost to the value the global has then
C29_UpdatesAdd ==
    [][\A s \in Sessions :
        (call_pc[s] = "store_total" /\ call_pc'[s] = "parse")
            => total_cost' = FAdd(total_cost, call_cost[s])]_vars

\* no request is sent when the accumulated cost is at the limit
C29_NoRequestAtLimit ==
    [][\A s \in Sessions :
        (call_pc[s] = "prompt" /\ call_pc'[s] = "request") => ~AtLimit]_vars

\* C29: with calls running concurrently no cost update is lost (each update
\* adds to the current total, so the total ends as the sum of the costs of the
\* successful calls), and no call sends a request after another call's update
\* has brought the total to the limit.
C29_ConcurrentCallsAccount == C29_UpdatesAdd /\ C29_NoRequestAtLimit

\* the call of session s ended in one of the three ways that make no request
\* or get no answer
CallFailed(s) ==
    \/ call_pc[s] = "raised"
    \/ /\ call_pc[s] = "returned"
       /\ explanation[s].kind \in {"key_not_set", "api_error"}

====
